---- MODULE Spec2Model ----
(***************************************************************************)
(* ContentForge: the batch request orchestrator (api/client.py) and the    *)
(* pipeline that drives it (main.py).                                      *)
(*                                                                         *)
(* One run of main(): run_async parses its mode, loads the configuration,  *)
(* opens the client session, dispatches one generate() coroutine per task  *)
(* through asyncio.gather, closes the session, and either assembles and    *)
(* saves the document or lets the error reach main().  The coroutines are  *)
(* interleaved at their await points: the pending HTTP response and the    *)
(* backoff sleep.                                                          *)
(***************************************************************************)
EXTENDS Integers, Sequences, FiniteSets, TLC

(***************************************************************************)
(* Bounds of the model.                                                    *)
(***************************************************************************)
\* largest number of configured sections
MaxSections == 2
\* largest number of failed attempts the endpoint produces in one run of the pipeline
MaxFaults == 3
\* largest task list handed to generate_batch directly
MaxBatch == 2
\* largest number of failed attempts the endpoint produces in one direct batch
MaxBatchFaults == 6

\* longest cell value handed to value_to_stars
MaxValueLen == 3

\* longest raw table text handed to parse_table_data
MaxRawLen == 5

\* most columns of a schema
MaxColumns == 3

\* most rows of a table handed to the table builders
MaxRows == 2

\* most lines of a text handed to text_to_html and text_to_md
MaxLines == 5

\* longest text handed to highlight_keywords and highlight_keywords_md
MaxHighlightLen == 3

\* most keywords of a keyword list
MaxKeywords == 2

\* most lines of a text handed to text_to_html and text_to_md together with keywords
MaxKeywordLines == 2

(***************************************************************************)
(* Program constants (core/constants.py).                                  *)
(***************************************************************************)
MAX_RETRIES == 3
RETRY_DELAY == 2

\* what one attempt of generate() can end in:
\*   ok            the response carries choices[0].message.content
\*   client_error  aiohttp.ClientError (transport, HTTP status, content type)
\*   timeout       any other exception raised before the body is decoded
\*   key_error     the decoded body lacks an expected key (KeyError)
\*   index_error   the decoded body has another wrong shape (IndexError, TypeError)
FailureOutcomes == {"client_error", "timeout", "key_error", "index_error"}
Outcomes == {"ok"} \cup FailureOutcomes
\* the pipeline is driven with one failure class; generate_batch with all of them
PipelineOutcomes == {"ok", "client_error"}
\* table.rows is not validated: it may be negative
RowChoices == {-1, 0, 1}

VARIABLES
    args,          \* command line: "init", "preview" or "generate"
    config_state,  \* "ok", "missing" (ConfigNotFoundError) or "invalid" (ConfigValidationError)
    api_key_set,   \* OPEN_ROUTER_API_KEY is present
    config,        \* ContentConfig: [sections, table |-> [enabled, rows]]
    phase,         \* position of the main coroutine
    session,       \* OpenRouterClient._session: "none", "open", "closed"
    closes,        \* number of ClientSession.close() calls
    tasks,         \* the list handed to generate_batch: <<[name, prompt]>>
    tpc,           \* per task: "pending", "awaiting", "sleeping", "done", "failed"
    attempt,       \* per task: loop variable of generate()
    last_error,    \* per task: last_error of generate()
    requests,      \* per task: number of session.post calls
    posted,        \* per task: the JSON bodies of its session.post calls, in order
    late_requests, \* number of session.post calls made while the session was not open
    pbar_n,        \* tqdm.n: number of pbar.update(1) calls
    delays,        \* per task: the asyncio.sleep arguments, in order
    result,        \* per task: what gather collects (content or exception)
    first_done,    \* index of the task that finished first in time (0: none yet)
    faults,        \* failed attempts so far
    fault_limit,   \* failed attempts the endpoint may produce in this run
    in_flight,     \* tasks not finished when generate_batch returned or raised
    results,       \* generate_batch's return value
    raised,        \* the exception leaving generate_batch
    content,       \* GeneratedContent
    saves,         \* number of save_output calls
    reported,      \* the exception main() reports and re-raises
    pbar_total,    \* tqdm's total (0: no progress bar yet)
    document,      \* full_content handed to save_output, and its format
    job,           \* a direct call of a text or rendering function: its name and arguments
    stage,         \* position of that call: "off", "called", "running", "returned"
    seg,           \* locals of text_to_html and text_to_md while they run
    out            \* return value of the direct call

vars == <<args, config_state, api_key_set, config, phase, session, closes, tasks,
          tpc, attempt, last_error, requests, posted, late_requests, pbar_n, delays, result,
          first_done, faults, fault_limit, in_flight, results, raised, content, saves, reported,
          pbar_total, document, job, stage, seg, out>>

\* an exception value: its class, the class of the exception it was built from, and
\* the task and attempt (loop variable) in which that exception was raised
NoError == [type |-> "none", origin |-> "none", task |-> 0, attempt |-> 0]

(***************************************************************************)
(* Pure helpers.                                                           *)
(***************************************************************************)
Digit == <<"0", "1", "2", "3", "4", "5", "6", "7", "8", "9">>

\* str(i) for i >= 0
RECURSIVE IntToStr(_)
IntToStr(i) ==
    IF i < 10 THEN Digit[i + 1] ELSE IntToStr(i \div 10) \o Digit[(i % 10) + 1]

\* f"section_{i}"
SectionName(i) == "section_" \o IntToStr(i)

\* ContentConfig.api_call_count
api_call_count(cfg) ==
    LET base == 2 + cfg.sections
    IN  IF cfg.table.enabled /\ cfg.table.rows > 0 THEN base + 1 ELSE base

\* the prompt builders: a prompt is identified by its builder and its task-specific arguments
build_intro_prompt(cfg) == "intro_prompt"
build_table_prompt(cfg) == "table_prompt"
build_section_prompt(cfg, i) == "section_prompt_" \o IntToStr(i)
build_conclusion_prompt(cfg) == "conclusion_prompt"

\* the model and the system prompt of core/constants.py, and the values of
\* ContentConfig.system_prompt: empty (the default) or a custom text
DEFAULT_MODEL == "openai/gpt-4o-mini"
DEFAULT_SYSTEM_PROMPT == "You are an experienced SEO content writer."
SystemPrompts == {"", "custom system prompt"}

\* Optional[str]: None, or a str
None == [some |-> FALSE]
Some(text) == [some |-> TRUE, value |-> text]

\* the JSON body generate(prompt, system_prompt) posts
generate_payload(model, prompt, system_prompt) ==
    LET system == IF system_prompt = None THEN DEFAULT_SYSTEM_PROMPT ELSE system_prompt.value
    IN  [model |-> model,
         messages |-> <<[role |-> "system", content |-> system],
                        [role |-> "user", content |-> prompt]>>]

\* variant: _task hands a non-empty config.system_prompt to generate()
task_payload_with_config_system_prompt(cfg, prompt) ==
    generate_payload(cfg.model, prompt,
                     IF cfg.system_prompt = "" THEN None ELSE Some(cfg.system_prompt))

\* the JSON body of _task(name, prompt): self.generate(prompt, pbar=pbar), the client
\* holding config.model
task_payload(cfg, prompt) == generate_payload(cfg.model, prompt, None)

\* the text the endpoint returns for a prompt
Completion(prompt) == "completion:" \o prompt

\* variant: the table task is queued whenever the table is enabled, whatever its row count
BuildTasksTableWhenEnabled(cfg) ==
    <<[name |-> "intro", prompt |-> build_intro_prompt(cfg)]>>
    \o (IF cfg.table.enabled
        THEN <<[name |-> "table", prompt |-> build_table_prompt(cfg)]>>
        ELSE <<>>)
    \o [k \in 1..cfg.sections |->
          [name |-> SectionName(k - 1), prompt |-> build_section_prompt(cfg, k - 1)]]
    \o <<[name |-> "conclusion", prompt |-> build_conclusion_prompt(cfg)]>>

\* the task list generate_all_content builds
BuildTasks(cfg) ==
    LET table_rows == IF cfg.table.enabled THEN cfg.table.rows ELSE 0
    IN  <<[name |-> "intro", prompt |-> build_intro_prompt(cfg)]>>
        \o (IF table_rows > 0
            THEN <<[name |-> "table", prompt |-> build_table_prompt(cfg)]>>
            ELSE <<>>)
        \o [k \in 1..cfg.sections |->
              [name |-> SectionName(k - 1), prompt |-> build_section_prompt(cfg, k - 1)]]
        \o <<[name |-> "conclusion", prompt |-> build_conclusion_prompt(cfg)]>>

Terminal(s) == s \in {"done", "failed"}

(***************************************************************************)
(* OpenRouterClient.generate, one attempt.                                 *)
(***************************************************************************)
\* the except clause an attempt's exception lands in, and the value it assigns to last_error
CaughtError(outcome, t, a) ==
    CASE outcome = "client_error" ->
           [type |-> "APIConnectionError", origin |-> "ClientError", task |-> t, attempt |-> a]
      [] outcome = "key_error" ->
           [type |-> "APIResponseError", origin |-> "KeyError", task |-> t, attempt |-> a]
      [] outcome = "timeout" ->
           [type |-> "TimeoutError", origin |-> "TimeoutError", task |-> t, attempt |-> a]
      [] outcome = "index_error" ->
           [type |-> "IndexError", origin |-> "IndexError", task |-> t, attempt |-> a]

\* variant: the first error is kept
NextLastErrorKeepsFirst(prev, caught) == IF prev = NoError THEN caught ELSE prev

\* last_error after an attempt failed: each except clause overwrites it
NextLastError(prev, caught) == caught

\* pbar.update(1) runs once response.json() has returned, before the body is subscripted
UpdatesProgress(outcome) == outcome \in {"ok", "key_error", "index_error"}

\* variant: the retry ceiling is off by one
RetryAfterOneMore(a) == a < MAX_RETRIES

\* if attempt < MAX_RETRIES - 1: sleep, then the next iteration
RetryAfter(a) == a < MAX_RETRIES - 1

\* variant: the delay is scaled by the loop variable itself
BackoffDelayFromZero(a) == RETRY_DELAY * a

\* asyncio.sleep(RETRY_DELAY * (attempt + 1))
BackoffDelay(a) == RETRY_DELAY * (a + 1)

\* raise APIConnectionError(f"API call failed after {MAX_RETRIES} attempts: {last_error}")
ExhaustedError(last) ==
    [type |-> "APIConnectionError", attempts |-> MAX_RETRIES, cause |-> last]

\* raise RuntimeError("Client must be used with context manager")
NoSessionError == [type |-> "RuntimeError", attempts |-> 0, cause |-> NoError]

NoException == [type |-> "none", attempts |-> 0, cause |-> NoError]

\* what gather collects for a coroutine: its return value or its exception
Returned(c) == [kind |-> "content", value |-> c, error |-> NoException]
Raised(e) == [kind |-> "exception", value |-> "", error |-> e]
Unset == [kind |-> "none", value |-> "", error |-> NoException]

(***************************************************************************)
(* OpenRouterClient.generate_batch.                                        *)
(***************************************************************************)
\* variant: gather without return_exceptions resumes on the first exception
GatherResumesOnFirstException(pcs) ==
    \/ \A t \in DOMAIN pcs : Terminal(pcs[t])
    \/ \E t \in DOMAIN pcs : pcs[t] = "failed"

\* await asyncio.gather(..., return_exceptions=True) resumes once every child has finished
GatherResumes(pcs) == \A t \in DOMAIN pcs : Terminal(pcs[t])

\* the loop over gather's results, in task order: the first exception is raised,
\* otherwise output[name] = content for every item
RECURSIVE CollectFrom(_, _, _, _)
CollectFrom(res, tsk, k, output) ==
    IF k > Len(res)
    THEN [ok |-> TRUE, output |-> output, error |-> NoException]
    ELSE IF res[k].kind = "exception"
         THEN [ok |-> FALSE, output |-> <<>>, error |-> res[k].error]
         ELSE CollectFrom(res, tsk, k + 1,
                          [n \in DOMAIN output \cup {tsk[k].name} |->
                              IF n = tsk[k].name THEN res[k].value ELSE output[n]])

\* variant: exceptions are skipped and the successful entries are returned
CollectPartial(res, tsk) ==
    LET kept == {k \in DOMAIN res : res[k].kind = "content"}
    IN  [ok |-> TRUE,
         output |-> [n \in {tsk[k].name : k \in kept} |->
                       res[CHOOSE k \in kept : tsk[k].name = n].value],
         error |-> NoException]

\* variant: the results are scanned from the end, so the last exception is raised
CollectLastException(res, tsk) ==
    LET bad == {k \in DOMAIN res : res[k].kind = "exception"}
    IN  IF bad = {}
        THEN CollectFrom(res, tsk, 1, <<>>)
        ELSE [ok |-> FALSE, output |-> <<>>,
              error |-> res[CHOOSE k \in bad : \A j \in bad : j <= k].error]

Collect(res, tsk) == CollectFrom(res, tsk, 1, <<>>)

(***************************************************************************)
(* generate_all_content, after the batch.                                  *)
(***************************************************************************)
\* dict.get(key, "")
Get(d, key) == IF key \in DOMAIN d THEN d[key] ELSE ""

\* variant: the sections are looked up under names counted from 1
OrganizeSectionsFromOne(res, n) == [k \in 1..n |-> Get(res, SectionName(k))]

\* [results.get(f"section_{i}", "") for i in range(len(config.sections))]
OrganizeSections(res, n) == [k \in 1..n |-> Get(res, SectionName(k - 1))]

NoContent ==
    [intro |-> "", table_html |-> <<>>, table_md |-> <<>>, sections |-> <<>>, conclusion |-> ""]


Configs ==
    [sections : 0..MaxSections, table : [enabled : BOOLEAN, rows : RowChoices],
     model : {DEFAULT_MODEL}, system_prompt : SystemPrompts]

DefaultConfig ==
    [sections |-> 0, table |-> [enabled |-> FALSE, rows |-> 0],
     model |-> DEFAULT_MODEL, system_prompt |-> ""]

\* a task list a caller hands to generate_batch directly
DirectTasks(n) ==
    [k \in 1..n |-> [name |-> "task_" \o IntToStr(k), prompt |-> "prompt_" \o IntToStr(k)]]

(***************************************************************************)
(* Text: a str is modelled as the sequence of its characters.              *)
(***************************************************************************)
Whitespace == {" ", "\n", "\t", "\r"}

RECURSIVE lstrip(_)
lstrip(s) ==
    IF s # <<>> /\ Head(s) \in Whitespace THEN lstrip(Tail(s)) ELSE s

RECURSIVE rstrip(_)
rstrip(s) ==
    IF s # <<>> /\ s[Len(s)] \in Whitespace THEN rstrip(SubSeq(s, 1, Len(s) - 1)) ELSE s

\* str.strip()
strip(s) == rstrip(lstrip(s))

\* str.split(sep) for a one-character separator
RECURSIVE split(_, _)
split(s, sep) ==
    IF \E i \in DOMAIN s : s[i] = sep
    THEN LET i == CHOOSE k \in DOMAIN s : s[k] = sep /\ \A j \in 1..(k - 1) : s[j] # sep
         IN  <<SubSeq(s, 1, i - 1)>> \o split(SubSeq(s, i + 1, Len(s)), sep)
    ELSE <<s>>

\* sep.join(parts)
RECURSIVE join(_, _)
join(sep, parts) ==
    IF parts = <<>> THEN <<>>
    ELSE IF Len(parts) = 1 THEN parts[1]
    ELSE parts[1] \o sep \o join(sep, Tail(parts))

\* str.startswith(prefix)
startswith(s, prefix) ==
    Len(s) >= Len(prefix) /\ SubSeq(s, 1, Len(prefix)) = prefix

\* all strings over an alphabet up to a length
Strings(alphabet, maxlen) == UNION {[1..n -> alphabet] : n \in 0..maxlen}

(***************************************************************************)
(* value_to_stars (generators/html.py and generators/markdown.py).         *)
(***************************************************************************)
\* the character U+2B50 (a star), which a TLA+ string cannot hold
Star == "U+2B50"

IsDigit(c) == \E d \in 1..10 : Digit[d] = c

DigitValue(c) == (CHOOSE d \in 1..10 : Digit[d] = c) - 1

\* int(text) for a str: an optional sign, then digits, single underscores allowed between
\* digits, surrounding whitespace ignored; anything else raises ValueError
int(text) ==
    LET t == strip(text)
        signed == t # <<>> /\ Head(t) \in {"+", "-"}
        body == IF signed THEN Tail(t) ELSE t
        wellformed ==
            /\ body # <<>>
            /\ \A i \in DOMAIN body :
                  \/ IsDigit(body[i])
                  \/ /\ body[i] = "_"
                     /\ 1 < i
                     /\ i < Len(body)
                     /\ IsDigit(body[i - 1])
                     /\ IsDigit(body[i + 1])
        digits == SelectSeq(body, IsDigit)
        magnitude[k \in 0..Len(digits)] ==
            IF k = 0 THEN 0 ELSE magnitude[k - 1] * 10 + DigitValue(digits[k])
    IN  IF ~wellformed THEN [ok |-> FALSE, n |-> 0]
        ELSE [ok |-> TRUE,
              n |-> IF signed /\ Head(t) = "-" THEN 0 - magnitude[Len(digits)]
                    ELSE magnitude[Len(digits)]]

\* Star * k
Stars(k) == [i \in 1..k |-> Star]

max(a, b) == IF a >= b THEN a ELSE b

min(a, b) == IF a <= b THEN a ELSE b

\* variant: the count is capped at five but has no floor
html_value_to_stars_no_floor(value) ==
    LET num == int(strip(value))
    IN  IF num.ok THEN Stars(min(num.n, 5)) ELSE value

\* generators/html.py value_to_stars
html_value_to_stars(value) ==
    LET num == int(strip(value))
    IN  IF num.ok THEN Stars(min(max(num.n, 1), 5)) ELSE value

\* generators/markdown.py value_to_stars
md_value_to_stars(value) ==
    LET num == int(strip(value))
    IN  IF num.ok THEN Stars(min(max(num.n, 1), 5)) ELSE value

(***************************************************************************)
(* Tables (utils/text.py, generators/html.py, generators/markdown.py).     *)
(***************************************************************************)
\* a TableColumn is [name, header, type]; a TableRow is its values mapping, column name to str

\* TableRow.get(column_name, default)
row_get(row, column_name, default) ==
    IF column_name \in DOMAIN row THEN row[column_name] ELSE default

\* the dict filled by "for i, col in enumerate(columns): values[col.name] = ..."
RowValues(parts, columns) ==
    [nm \in {columns[i].name : i \in DOMAIN columns} |->
        LET i == CHOOSE k \in DOMAIN columns :
                    /\ columns[k].name = nm
                    /\ \A j \in DOMAIN columns : columns[j].name = nm => j <= k
        IN  IF i <= Len(parts) THEN parts[i] ELSE <<>>]

\* [p.strip() for p in line.split('|')]
Parts(line) ==
    LET fields == split(line, "|")
    IN  [i \in DOMAIN fields |-> strip(fields[i])]

\* variant: a line with fewer fields than columns is kept, its missing values empty
RECURSIVE ParseLinesPaddingShortRows(_, _)
ParseLinesPaddingShortRows(lines, columns) ==
    IF lines = <<>> THEN <<>>
    ELSE LET line == strip(Head(lines))
             rest == ParseLinesPaddingShortRows(Tail(lines), columns)
         IN  IF line = <<>> \/ ~(\E i \in DOMAIN line : line[i] = "|") THEN rest
             ELSE <<RowValues(Parts(line), columns)>> \o rest

\* the loop of parse_table_data over the lines
RECURSIVE ParseLines(_, _)
ParseLines(lines, columns) ==
    IF lines = <<>> THEN <<>>
    ELSE LET line == strip(Head(lines))
             rest == ParseLines(Tail(lines), columns)
         IN  IF line = <<>> \/ ~(\E i \in DOMAIN line : line[i] = "|") THEN rest
             ELSE IF Len(Parts(line)) >= Len(columns)
                  THEN <<RowValues(Parts(line), columns)>> \o rest
                  ELSE rest

\* variant of parse_table_data without the field-count test
parse_table_data_padding_short_rows(raw_data, columns) ==
    ParseLinesPaddingShortRows(split(strip(raw_data), "\n"), columns)

\* utils/text.py parse_table_data
parse_table_data(raw_data, columns) ==
    ParseLines(split(strip(raw_data), "\n"), columns)

\* the cell build_table_html writes for a row and a column
html_cell(row, col) ==
    LET value == row_get(row, col.name, <<>>)
    IN  IF col.type = "stars" THEN html_value_to_stars(value) ELSE value

\* the lines build_table_html appends for the rows
RECURSIVE html_row_lines(_, _)
html_row_lines(rows, columns) ==
    IF rows = <<>> THEN <<>>
    ELSE <<<<" ", " ", " ", " ", "<", "t", "r", ">">>>>
         \o [k \in DOMAIN columns |-> <<" ", " ", " ", " ", " ", " ", "<", "t", "d", ">">> \o html_cell(Head(rows), columns[k]) \o <<"<", "/", "t", "d", ">">>]
         \o <<<<" ", " ", " ", " ", "<", "/", "t", "r", ">">>>>
         \o html_row_lines(Tail(rows), columns)

\* generators/html.py build_table_html
build_table_html(rows, columns) ==
    IF rows = <<>> \/ columns = <<>> THEN <<>>
    ELSE join(<<"\n">>,
              <<<<"<", "t", "a", "b", "l", "e", " ", "c", "l", "a", "s", "s", "=", "\"", "t", "a", "b", "l", "e", " ", "t", "a", "b", "l", "e", "-", "s", "t", "r", "i", "p", "e", "d", "\"", ">">>,
                <<" ", " ", "<", "t", "h", "e", "a", "d", ">">>,
                <<" ", " ", " ", " ", "<", "t", "r", ">">>>>
              \o [k \in DOMAIN columns |-> <<" ", " ", " ", " ", " ", " ", "<", "t", "h", ">">> \o columns[k].header \o <<"<", "/", "t", "h", ">">>]
              \o <<<<" ", " ", " ", " ", "<", "/", "t", "r", ">">>,
                   <<" ", " ", "<", "/", "t", "h", "e", "a", "d", ">">>,
                   <<" ", " ", "<", "t", "b", "o", "d", "y", ">">>>>
              \o html_row_lines(rows, columns)
              \o <<<<" ", " ", "<", "/", "t", "b", "o", "d", "y", ">">>,
                   <<"<", "/", "t", "a", "b", "l", "e", ">">>>>)

\* the cell build_table_md writes for a row and a column
md_cell(row, col) ==
    LET value == row_get(row, col.name, <<>>)
    IN  IF col.type = "stars" THEN md_value_to_stars(value) ELSE value

\* "| " + " | ".join(cells) + " |"
md_table_line(cells) == <<"|", " ">> \o join(<<" ", "|", " ">>, cells) \o <<" ", "|">>

\* generators/markdown.py build_table_md
build_table_md(rows, columns) ==
    IF rows = <<>> \/ columns = <<>> THEN <<>>
    ELSE join(<<"\n">>,
              <<md_table_line([k \in DOMAIN columns |-> columns[k].header]),
                md_table_line([k \in DOMAIN columns |-> <<"-", "-", "-">>])>>
              \o [r \in DOMAIN rows |->
                    md_table_line([k \in DOMAIN columns |-> md_cell(rows[r], columns[k])])])

(***************************************************************************)
(* Keyword highlighting (generators/html.py, generators/markdown.py).      *)
(***************************************************************************)
UpperCase == <<"A", "B", "X", "Y">>
LowerCase == <<"a", "b", "x", "y">>

\* the case-insensitive class of a character (re.IGNORECASE)
lower(c) ==
    IF \E k \in DOMAIN UpperCase : UpperCase[k] = c
    THEN LowerCase[CHOOSE k \in DOMAIN UpperCase : UpperCase[k] = c]
    ELSE c

\* the pattern re.escape(keyword) with re.IGNORECASE matches at position i of text
MatchesAt(text, i, keyword) ==
    /\ i + Len(keyword) - 1 <= Len(text)
    /\ \A k \in DOMAIN keyword : lower(text[i + k - 1]) = lower(keyword[k])

\* variant: the pattern is compiled without re.IGNORECASE
RECURSIVE sub_case_sensitive(_, _, _, _, _)
sub_case_sensitive(text, i, keyword, open, close) ==
    IF i > Len(text) THEN (IF keyword = <<>> THEN open \o close ELSE <<>>)
    ELSE IF i + Len(keyword) - 1 <= Len(text) /\ SubSeq(text, i, i + Len(keyword) - 1) = keyword
    THEN IF keyword = <<>>
         THEN open \o close \o <<text[i]>> \o sub_case_sensitive(text, i + 1, keyword, open, close)
         ELSE open \o SubSeq(text, i, i + Len(keyword) - 1) \o close
              \o sub_case_sensitive(text, i + Len(keyword), keyword, open, close)
    ELSE <<text[i]>> \o sub_case_sensitive(text, i + 1, keyword, open, close)

\* pattern.sub(lambda m: open + m.group() + close, text), scanning from position i: the
\* leftmost matches that do not overlap are replaced, everything else is copied
RECURSIVE sub(_, _, _, _, _)
sub(text, i, keyword, open, close) ==
    IF i > Len(text) THEN (IF keyword = <<>> THEN open \o close ELSE <<>>)
    ELSE IF MatchesAt(text, i, keyword)
    THEN IF keyword = <<>>
         THEN open \o close \o <<text[i]>> \o sub(text, i + 1, keyword, open, close)
         ELSE open \o SubSeq(text, i, i + Len(keyword) - 1) \o close
              \o sub(text, i + Len(keyword), keyword, open, close)
    ELSE <<text[i]>> \o sub(text, i + 1, keyword, open, close)

\* one iteration of the loop of highlight_keywords
html_highlight_one(highlighted, keyword) ==
    sub(highlighted, 1, keyword, <<"<", "b", ">">>, <<"<", "/", "b", ">">>)

\* one iteration of the loop of highlight_keywords_md
md_highlight_one(highlighted, keyword) ==
    sub(highlighted, 1, keyword, <<"*", "*">>, <<"*", "*">>)

\* generators/html.py highlight_keywords
RECURSIVE highlight_keywords(_, _)
highlight_keywords(text, keywords) ==
    IF keywords = <<>> THEN text
    ELSE highlight_keywords(html_highlight_one(text, Head(keywords)), Tail(keywords))

\* generators/markdown.py highlight_keywords_md
RECURSIVE highlight_keywords_md(_, _)
highlight_keywords_md(text, keywords) ==
    IF keywords = <<>> THEN text
    ELSE highlight_keywords_md(md_highlight_one(text, Head(keywords)), Tail(keywords))

(***************************************************************************)
(* text_to_html and text_to_md: the locals of a call are [paragraphs,      *)
(* current_list, current_para], and blocks records what each flush emitted *)
(***************************************************************************)
\* the character U+2022 (a bullet), which a TLA+ string cannot hold
Bullet == "U+2022"

NewBuffers == [paragraphs |-> <<>>, current_list |-> <<>>, current_para |-> <<>>, blocks |-> <<>>]

\* line.startswith((Bullet + ' ', '- ', '* '))
IsListLine(line) ==
    \/ startswith(line, <<Bullet, " ">>)
    \/ startswith(line, <<"-", " ">>)
    \/ startswith(line, <<"*", " ">>)

\* line[2:]
DropTwo(line) == SubSeq(line, 3, Len(line))

\* flush_para of text_to_html
html_flush_para(m) ==
    IF m.current_para # <<>>
    THEN [m EXCEPT !.paragraphs = Append(@, <<"<", "p", ">">> \o join(<<" ">>, m.current_para) \o <<"<", "/", "p", ">">>),
                   !.blocks = Append(@, [kind |-> "paragraph", lines |-> m.current_para]),
                   !.current_para = <<>>]
    ELSE m

\* flush_list of text_to_html
html_flush_list(m) ==
    IF m.current_list # <<>>
    THEN LET items == join(<<"\n">>, [k \in DOMAIN m.current_list |->
                                       <<" ", " ", "<", "l", "i", ">">> \o m.current_list[k] \o <<"<", "/", "l", "i", ">">>])
         IN  [m EXCEPT !.paragraphs = Append(@, <<"<", "u", "l", ">", "\n">> \o items \o <<"\n", "<", "/", "u", "l", ">">>),
                       !.blocks = Append(@, [kind |-> "list", lines |-> m.current_list]),
                       !.current_list = <<>>]
    ELSE m

\* variant: a list line is queued without flushing the paragraph before it
html_line_list_without_flush(m, raw_line) ==
    LET line == strip(raw_line)
    IN  IF line = <<>> THEN html_flush_list(html_flush_para(m))
        ELSE IF IsListLine(line)
        THEN [m EXCEPT !.current_list = Append(@, DropTwo(line))]
        ELSE [html_flush_list(m) EXCEPT !.current_para = Append(@, line)]

\* variant: a blank line does not end the paragraph before it
html_line_blank_ignored(m, raw_line) ==
    LET line == strip(raw_line)
    IN  IF line = <<>> THEN m
        ELSE IF IsListLine(line)
        THEN [html_flush_para(m) EXCEPT !.current_list = Append(@, DropTwo(line))]
        ELSE [html_flush_list(m) EXCEPT !.current_para = Append(@, line)]

\* one iteration of "for line in text.split('\n')" of text_to_html
html_line(m, raw_line) ==
    LET line == strip(raw_line)
    IN  IF line = <<>> THEN html_flush_list(html_flush_para(m))
        ELSE IF IsListLine(line)
        THEN [html_flush_para(m) EXCEPT !.current_list = Append(@, DropTwo(line))]
        ELSE [html_flush_list(m) EXCEPT !.current_para = Append(@, line)]

\* flush_para of text_to_md
md_flush_para(m) ==
    IF m.current_para # <<>>
    THEN [m EXCEPT !.paragraphs = Append(@, join(<<" ">>, m.current_para)),
                   !.blocks = Append(@, [kind |-> "paragraph", lines |-> m.current_para]),
                   !.current_para = <<>>]
    ELSE m

\* flush_list of text_to_md
md_flush_list(m) ==
    IF m.current_list # <<>>
    THEN LET items == join(<<"\n">>, [k \in DOMAIN m.current_list |->
                                       <<"-", " ">> \o m.current_list[k]])
         IN  [m EXCEPT !.paragraphs = Append(@, items),
                       !.blocks = Append(@, [kind |-> "list", lines |-> m.current_list]),
                       !.current_list = <<>>]
    ELSE m

\* variant: text_to_md keeps the marker of a list line in the item
md_line_keeping_marker(m, raw_line) ==
    LET line == strip(raw_line)
    IN  IF line = <<>> THEN md_flush_list(md_flush_para(m))
        ELSE IF IsListLine(line)
        THEN [md_flush_para(m) EXCEPT !.current_list = Append(@, line)]
        ELSE [md_flush_list(m) EXCEPT !.current_para = Append(@, line)]

\* one iteration of "for line in text.split('\n')" of text_to_md
md_line(m, raw_line) ==
    LET line == strip(raw_line)
    IN  IF line = <<>> THEN md_flush_list(md_flush_para(m))
        ELSE IF IsListLine(line)
        THEN [md_flush_para(m) EXCEPT !.current_list = Append(@, DropTwo(line))]
        ELSE [md_flush_list(m) EXCEPT !.current_para = Append(@, line)]

\* the end of text_to_html: the last flushes, the join, the highlighting
html_finish(m, keywords) ==
    LET done == html_flush_list(html_flush_para(m))
        html == join(<<"\n">>, done.paragraphs)
    IN  [m |-> done,
         text |-> IF keywords # <<>> THEN highlight_keywords(html, keywords) ELSE html]

\* the end of text_to_md
md_finish(m, keywords) ==
    LET done == md_flush_list(md_flush_para(m))
        md == join(<<"\n", "\n">>, done.paragraphs)
    IN  [m |-> done,
         text |-> IF keywords # <<>> THEN highlight_keywords_md(md, keywords) ELSE md]

(***************************************************************************)
(* text_to_html and text_to_md as functions, and the full documents.       *)
(***************************************************************************)
RECURSIVE html_loop(_, _)
html_loop(m, lines) ==
    IF lines = <<>> THEN m ELSE html_loop(html_line(m, Head(lines)), Tail(lines))

\* generators/html.py text_to_html
text_to_html(text, keywords) ==
    LET t == strip(text)
    IN  IF t = <<>> THEN <<>>
        ELSE html_finish(html_loop(NewBuffers, split(t, "\n")), keywords).text

RECURSIVE md_loop(_, _)
md_loop(m, lines) ==
    IF lines = <<>> THEN m ELSE md_loop(md_line(m, Head(lines)), Tail(lines))

\* generators/markdown.py text_to_md
text_to_md(text, keywords) ==
    LET t == strip(text)
    IN  IF t = <<>> THEN <<>>
        ELSE md_finish(md_loop(NewBuffers, split(t, "\n")), keywords).text

\* the default table_header and conclusion_header
TableHeader == <<"C", "o", "m", "p", "a", "r", "i", "s", "o", "n">>
ConclusionHeader == <<"C", "o", "n", "c", "l", "u", "s", "i", "o", "n">>

\* the lines build_full_html appends for the sections
html_section_lines(gen, headings, keywords) ==
    LET block(k) == <<<<"<", "s", "e", "c", "t", "i", "o", "n", ">">>,
                      <<"<", "h", "2", ">">> \o headings[k] \o <<"<", "/", "h", "2", ">">>,
                      text_to_html(gen.sections[k], keywords),
                      <<"<", "/", "s", "e", "c", "t", "i", "o", "n", ">">>,
                      <<>>>>
        blocks[k \in 0..Len(headings)] == IF k = 0 THEN <<>> ELSE blocks[k - 1] \o block(k)
    IN  blocks[min(Len(headings), Len(gen.sections))]

\* variant: the table block is written whenever the table artifact is not the empty string
build_full_html_table_untrimmed(title, gen, headings, keywords) ==
    join(<<"\n">>,
         <<<<"<", "h", "1", ">">> \o title \o <<"<", "/", "h", "1", ">">>,
           <<>>,
           <<"<", "d", "i", "v", " ", "c", "l", "a", "s", "s", "=", "\"", "i", "n", "t", "r", "o", "\"", ">">>,
           text_to_html(gen.intro, keywords),
           <<"<", "/", "d", "i", "v", ">">>,
           <<>>>>
         \o (IF gen.table_html # <<>>
             THEN <<<<"<", "d", "i", "v", " ", "c", "l", "a", "s", "s", "=", "\"", "c", "o", "m", "p", "a", "r", "i", "s", "o", "n", "-", "t", "a", "b", "l", "e", "\"", ">">>,
                    <<"<", "h", "2", ">">> \o TableHeader \o <<"<", "/", "h", "2", ">">>,
                    strip(gen.table_html),
                    <<"<", "/", "d", "i", "v", ">">>,
                    <<>>>>
             ELSE <<>>)
         \o html_section_lines(gen, headings, keywords)
         \o <<<<"<", "d", "i", "v", " ", "c", "l", "a", "s", "s", "=", "\"", "c", "o", "n", "c", "l", "u", "s", "i", "o", "n", "\"", ">">>,
              <<"<", "h", "2", ">">> \o ConclusionHeader \o <<"<", "/", "h", "2", ">">>,
              text_to_html(gen.conclusion, keywords),
              <<"<", "/", "d", "i", "v", ">">>>>)

\* generators/html.py build_full_html
build_full_html(title, gen, headings, keywords) ==
    join(<<"\n">>,
         <<<<"<", "h", "1", ">">> \o title \o <<"<", "/", "h", "1", ">">>,
           <<>>,
           <<"<", "d", "i", "v", " ", "c", "l", "a", "s", "s", "=", "\"", "i", "n", "t", "r", "o", "\"", ">">>,
           text_to_html(gen.intro, keywords),
           <<"<", "/", "d", "i", "v", ">">>,
           <<>>>>
         \o (IF gen.table_html # <<>> /\ strip(gen.table_html) # <<>>
             THEN <<<<"<", "d", "i", "v", " ", "c", "l", "a", "s", "s", "=", "\"", "c", "o", "m", "p", "a", "r", "i", "s", "o", "n", "-", "t", "a", "b", "l", "e", "\"", ">">>,
                    <<"<", "h", "2", ">">> \o TableHeader \o <<"<", "/", "h", "2", ">">>,
                    strip(gen.table_html),
                    <<"<", "/", "d", "i", "v", ">">>,
                    <<>>>>
             ELSE <<>>)
         \o html_section_lines(gen, headings, keywords)
         \o <<<<"<", "d", "i", "v", " ", "c", "l", "a", "s", "s", "=", "\"", "c", "o", "n", "c", "l", "u", "s", "i", "o", "n", "\"", ">">>,
              <<"<", "h", "2", ">">> \o ConclusionHeader \o <<"<", "/", "h", "2", ">">>,
              text_to_html(gen.conclusion, keywords),
              <<"<", "/", "d", "i", "v", ">">>>>)

\* the lines build_full_md appends for the sections
md_section_lines(gen, headings, keywords) ==
    LET block(k) == <<<<"#", "#", " ">> \o headings[k],
                      <<>>,
                      text_to_md(gen.sections[k], keywords),
                      <<>>>>
        blocks[k \in 0..Len(headings)] == IF k = 0 THEN <<>> ELSE blocks[k - 1] \o block(k)
    IN  blocks[min(Len(headings), Len(gen.sections))]

\* generators/markdown.py build_full_md
build_full_md(title, gen, headings, keywords) ==
    join(<<"\n">>,
         <<<<"#", " ">> \o title,
           <<>>,
           text_to_md(gen.intro, keywords),
           <<>>>>
         \o (IF gen.table_md # <<>> /\ strip(gen.table_md) # <<>>
             THEN <<<<"#", "#", " ">> \o TableHeader,
                    <<>>,
                    strip(gen.table_md),
                    <<>>>>
             ELSE <<>>)
         \o md_section_lines(gen, headings, keywords)
         \o <<<<"#", "#", " ", "C", "o", "n", "c", "l", "u", "s", "i", "o", "n">>,
              <<>>,
              text_to_md(gen.conclusion, keywords)>>)

(***************************************************************************)
(* The texts of a pipeline run.                                            *)
(***************************************************************************)
\* the character U+0060 (a backtick), which a TLA+ string cannot hold
Backtick == "U+0060"

\* the characters \w matches
WordChars ==
    {"a", "b", "c", "d", "e", "f", "g", "h", "i", "j", "k", "l", "m", "n", "o", "p", "q",
     "r", "s", "t", "u", "v", "w", "x", "y", "z", "A", "B", "C", "D", "E", "F", "G", "H",
     "I", "J", "K", "L", "M", "N", "O", "P", "Q", "R", "S", "T", "U", "V", "W", "X", "Y",
     "Z", "_"} \cup {Digit[d] : d \in 1..10}

\* the first position from i on whose character is not in the set
RECURSIVE SkipWhile(_, _, _)
SkipWhile(text, i, chars) ==
    IF i <= Len(text) /\ text[i] \in chars THEN SkipWhile(text, i + 1, chars) ELSE i

\* MARKDOWN_FENCE_PATTERN.sub('', text), scanning from position i
RECURSIVE RemoveFences(_, _)
RemoveFences(text, i) ==
    IF i > Len(text) THEN <<>>
    ELSE IF startswith(SubSeq(text, i, Len(text)), <<Backtick, Backtick, Backtick>>)
    THEN RemoveFences(text, SkipWhile(text, SkipWhile(text, i + 3, WordChars), Whitespace))
    ELSE <<text[i]>> \o RemoveFences(text, i + 1)

\* utils/text.py clean_markdown_fences
clean_markdown_fences(text) == strip(RemoveFences(text, 1))

\* TableConfig.get_default_columns, used when the configuration names no columns
DefaultColumns ==
    <<[name |-> "item", header |-> <<"I", "t", "e", "m">>, type |-> "text"],
      [name |-> "value", header |-> <<"V", "a", "l", "u", "e">>, type |-> "text"],
      [name |-> "feature", header |-> <<"F", "e", "a", "t", "u", "r", "e">>, type |-> "text"],
      [name |-> "rating", header |-> <<"R", "a", "t", "i", "n", "g">>, type |-> "stars"]>>

\* what the endpoint writes for the table prompt: one fenced row of four fields
TableReply == <<Backtick, Backtick, Backtick, "\n", "x", " ", "|", " ", "7", " ", "|", " ", "a", " ", "|", " ", "3", "\n", Backtick, Backtick, Backtick>>

\* what the endpoint writes for the other prompts: a paragraph line and a list line
BodyReply == <<"a", "\n", "-", " ", "x">>

\* the characters of a completion
CompletionText(completion) ==
    IF completion = "" THEN <<>>
    ELSE IF completion = Completion("table_prompt") THEN TableReply
    ELSE BodyReply

\* config.title, config.headings and config.seo.all_keywords of a run
Title == <<"T">>
Headings(cfg) == [k \in 1..cfg.sections |-> <<"H", Digit[k + 1]>>]
AllKeywords == <<>>

\* the GeneratedContent as the document builders read it
Rendered(gen) ==
    [intro |-> CompletionText(gen.intro),
     table_html |-> gen.table_html,
     table_md |-> gen.table_md,
     sections |-> [k \in DOMAIN gen.sections |-> CompletionText(gen.sections[k])],
     conclusion |-> CompletionText(gen.conclusion)]

NoDocument == [format |-> "none", text |-> <<>>]

\* no text or rendering function is called directly
NoJob == [fn |-> "none"]

NoSeg == [fn |-> "none"]

NoCall ==
    /\ job = NoJob
    /\ stage = "off"
    /\ seg = NoSeg
    /\ out = <<>>

\* nothing dispatched, nothing collected
Idle ==
    /\ closes = 0
    /\ tpc = <<>>
    /\ attempt = <<>>
    /\ last_error = <<>>
    /\ requests = <<>>
    /\ posted = <<>>
    /\ late_requests = 0
    /\ pbar_n = 0
    /\ delays = <<>>
    /\ result = <<>>
    /\ first_done = 0
    /\ faults = 0
    /\ in_flight = 0
    /\ results = <<>>
    /\ raised = NoException
    /\ content = NoContent
    /\ saves = 0
    /\ reported = NoException
    /\ pbar_total = 0
    /\ document = NoDocument

\* main() is entered: arguments parsed, nothing loaded yet
Init ==
    /\ args \in {"init", "preview", "generate"}
    /\ config_state \in {"ok", "missing", "invalid"}
    /\ api_key_set \in BOOLEAN
    /\ config \in Configs
    /\ (config_state # "ok" \/ args = "init") => config = DefaultConfig
    /\ phase = "start"
    /\ session = "none"
    /\ tasks = <<>>
    /\ fault_limit = MaxFaults
    /\ Idle
    /\ NoCall

\* a caller inside "async with OpenRouterClient(...) as client" about to call generate_batch
InitBatch ==
    /\ args = "generate"
    /\ config_state = "ok"
    /\ api_key_set = TRUE
    /\ config = DefaultConfig
    /\ phase = "call"
    /\ session = "open"
    /\ \E n \in 1..MaxBatch : tasks = DirectTasks(n)
    /\ fault_limit = MaxBatchFaults
    /\ Idle
    /\ NoCall

renderVars == <<job, stage, seg, out>>
inputVars == <<args, config_state, api_key_set, config, fault_limit, renderVars>>
taskVars == <<tpc, attempt, last_error, requests, posted, late_requests, pbar_n, delays, result,
              first_done, faults>>
outVars == <<in_flight, results, raised, content, saves, reported>>
docVars == <<pbar_total, document>>

pipelineVars == <<args, config_state, api_key_set, config, fault_limit, phase, session, closes,
                  tasks, taskVars, outVars, docVars>>

\* the pipeline is not running: the functions below are called on their own
PipelineOff ==
    /\ args = "none"
    /\ config_state = "ok"
    /\ api_key_set = FALSE
    /\ config = DefaultConfig
    /\ phase = "off"
    /\ session = "none"
    /\ tasks = <<>>
    /\ fault_limit = 0
    /\ Idle

(***************************************************************************)
(* Direct calls of the text and rendering functions.                       *)
(***************************************************************************)
\* the characters cell values are drawn from
ValueChars == {"-", "+", "0", "3", "7", " ", "_", "x"}

StarsJobs == [fn : {"value_to_stars"}, value : Strings(ValueChars, MaxValueLen)]

\* value_to_stars(value), in generators/html.py and in generators/markdown.py
ValueToStars ==
    /\ stage = "called"
    /\ job.fn = "value_to_stars"
    /\ out' = [html |-> html_value_to_stars(job.value), md |-> md_value_to_stars(job.value)]
    /\ stage' = "returned"
    /\ UNCHANGED <<job, seg, pipelineVars>>


(***************************************************************************)
(* run_async up to the batch.                                              *)
(***************************************************************************)
\* --init: save_default_config, return
RunInit ==
    /\ phase = "start"
    /\ args = "init"
    /\ phase' = "exit"
    /\ UNCHANGED <<inputVars, docVars, taskVars, outVars, session, closes, tasks>>

\* load_config raises ConfigNotFoundError: message printed, return
ConfigNotFound ==
    /\ phase = "start"
    /\ args # "init"
    /\ config_state = "missing"
    /\ phase' = "exit"
    /\ UNCHANGED <<inputVars, docVars, taskVars, outVars, session, closes, tasks>>

\* validate_config raises ConfigValidationError: not caught in run_async
ConfigInvalid ==
    /\ phase = "start"
    /\ args # "init"
    /\ config_state = "invalid"
    /\ raised' = [type |-> "ConfigValidationError", attempts |-> 0, cause |-> NoError]
    /\ phase' = "propagate"
    /\ UNCHANGED <<inputVars, docVars, taskVars, session, closes, tasks, in_flight, results,
                   content, saves, reported>>

\* --preview: show_preview, return
Preview ==
    /\ phase = "start"
    /\ args = "preview"
    /\ config_state = "ok"
    /\ phase' = "exit"
    /\ UNCHANGED <<inputVars, docVars, taskVars, outVars, session, closes, tasks>>

\* load_api_key raises APIKeyError
ApiKeyMissing ==
    /\ phase = "start"
    /\ args = "generate"
    /\ config_state = "ok"
    /\ ~api_key_set
    /\ raised' = [type |-> "APIKeyError", attempts |-> 0, cause |-> NoError]
    /\ phase' = "propagate"
    /\ UNCHANGED <<inputVars, docVars, taskVars, session, closes, tasks, in_flight, results,
                   content, saves, reported>>

\* async with OpenRouterClient(...) as client: __aenter__ creates the session
OpenSession ==
    /\ phase = "start"
    /\ args = "generate"
    /\ config_state = "ok"
    /\ api_key_set
    /\ session' = "open"
    /\ phase' = "session"
    /\ UNCHANGED <<inputVars, docVars, taskVars, outVars, closes, tasks>>

\* generate_all_content builds the task list and calls generate_batch
BuildTaskList ==
    /\ phase = "session"
    /\ pbar_total' = api_call_count(config)
    /\ tasks' = BuildTasks(config)
    /\ phase' = "call"
    /\ UNCHANGED <<inputVars, document, taskVars, outVars, session, closes>>

(***************************************************************************)
(* generate_batch and its coroutines _task(name, prompt) -> generate().    *)
(***************************************************************************)
\* generate_batch hands one coroutine per task to asyncio.gather and awaits it
Dispatch ==
    /\ phase = "call"
    /\ tpc' = [t \in 1..Len(tasks) |-> "pending"]
    /\ attempt' = [t \in 1..Len(tasks) |-> 0]
    /\ last_error' = [t \in 1..Len(tasks) |-> NoError]
    /\ requests' = [t \in 1..Len(tasks) |-> 0]
    /\ posted' = [t \in 1..Len(tasks) |-> <<>>]
    /\ delays' = [t \in 1..Len(tasks) |-> <<>>]
    /\ result' = [t \in 1..Len(tasks) |-> Unset]
    /\ phase' = "gather"
    /\ UNCHANGED <<inputVars, docVars, outVars, session, closes, tasks, late_requests, pbar_n,
                   first_done, faults>>

Finish(t) == first_done' = IF first_done = 0 THEN t ELSE first_done

\* session.post of the current attempt, with the payload generate() built on entry
Post(t) ==
    /\ requests' = [requests EXCEPT ![t] = @ + 1]
    /\ posted' = [posted EXCEPT ![t] = Append(@, task_payload(config, tasks[t].prompt))]
    /\ late_requests' = IF session = "open" THEN late_requests ELSE late_requests + 1
    /\ tpc' = [tpc EXCEPT ![t] = "awaiting"]

\* generate() starts: the session guard, then the first attempt's request
StartTask(t) ==
    /\ t \in DOMAIN tpc
    /\ tpc[t] = "pending"
    /\ IF session = "none"
       THEN /\ tpc' = [tpc EXCEPT ![t] = "failed"]
            /\ result' = [result EXCEPT ![t] = Raised(NoSessionError)]
            /\ Finish(t)
            /\ UNCHANGED <<requests, posted, late_requests>>
       ELSE /\ Post(t)
            /\ UNCHANGED <<result, first_done>>
    /\ UNCHANGED <<inputVars, docVars, outVars, phase, session, closes, tasks, attempt, last_error,
                   pbar_n, delays, faults>>

\* the attempt's request ends: the content is returned, or the exception is caught and
\* the loop either sleeps or falls through to the final raise
Respond(t, outcome) ==
    /\ t \in DOMAIN tpc
    /\ tpc[t] = "awaiting"
    /\ outcome # "ok" => faults < fault_limit
    /\ pbar_n' = IF UpdatesProgress(outcome) THEN pbar_n + 1 ELSE pbar_n
    /\ IF outcome = "ok"
       THEN /\ tpc' = [tpc EXCEPT ![t] = "done"]
            /\ result' = [result EXCEPT ![t] = Returned(Completion(tasks[t].prompt))]
            /\ Finish(t)
            /\ UNCHANGED <<last_error, delays, faults>>
       ELSE LET err == NextLastError(last_error[t], CaughtError(outcome, t, attempt[t]))
            IN  /\ last_error' = [last_error EXCEPT ![t] = err]
                /\ faults' = faults + 1
                /\ IF RetryAfter(attempt[t])
                   THEN /\ delays' = [delays EXCEPT ![t] = Append(@, BackoffDelay(attempt[t]))]
                        /\ tpc' = [tpc EXCEPT ![t] = "sleeping"]
                        /\ UNCHANGED <<result, first_done>>
                   ELSE /\ tpc' = [tpc EXCEPT ![t] = "failed"]
                        /\ result' = [result EXCEPT ![t] = Raised(ExhaustedError(err))]
                        /\ Finish(t)
                        /\ UNCHANGED delays
    /\ UNCHANGED <<inputVars, docVars, outVars, phase, session, closes, tasks, attempt, requests,
                   posted, late_requests>>

\* the backoff sleep ends: next iteration of the loop, next request
Wake(t) ==
    /\ t \in DOMAIN tpc
    /\ tpc[t] = "sleeping"
    /\ attempt' = [attempt EXCEPT ![t] = @ + 1]
    /\ Post(t)
    /\ UNCHANGED <<inputVars, docVars, outVars, phase, session, closes, tasks, last_error, pbar_n,
                   delays, result, first_done, faults>>

\* gather returns; the results are scanned and the batch returns or raises
BatchReturn ==
    /\ phase = "gather"
    /\ GatherResumes(tpc)
    /\ in_flight' = Cardinality({t \in DOMAIN tpc : ~Terminal(tpc[t])})
    /\ LET got == Collect(result, tasks)
       IN  IF got.ok
           THEN /\ results' = got.output
                /\ phase' = "batch_returned"
                /\ UNCHANGED raised
           ELSE /\ raised' = got.error
                /\ phase' = "batch_raised"
                /\ UNCHANGED results
    /\ UNCHANGED <<inputVars, docVars, taskVars, session, closes, tasks, content, saves, reported>>

\* variant: the session is closed at the end of the block, not on the way out of it
CloseSessionUnlessRaised ==
    /\ phase \in {"batch_returned", "batch_raised"}
    /\ IF session # "none" /\ phase = "batch_returned"
       THEN session' = "closed" /\ closes' = closes + 1
       ELSE UNCHANGED <<session, closes>>
    /\ phase' = IF phase = "batch_returned" THEN "organize" ELSE "propagate"
    /\ UNCHANGED <<inputVars, docVars, taskVars, outVars, tasks>>

\* leaving the async with block: __aexit__ closes the session
CloseSession ==
    /\ phase \in {"batch_returned", "batch_raised"}
    /\ IF session # "none"
       THEN session' = "closed" /\ closes' = closes + 1
       ELSE UNCHANGED <<session, closes>>
    /\ phase' = IF phase = "batch_returned" THEN "organize" ELSE "propagate"
    /\ UNCHANGED <<inputVars, docVars, taskVars, outVars, tasks>>

(***************************************************************************)
(* generate_all_content and run_async after the batch.                     *)
(***************************************************************************)
\* "Organize results": the GeneratedContent is filled from the mapping by task name
OrganizeResults ==
    /\ phase = "organize"
    /\ LET raw_data == clean_markdown_fences(CompletionText(results["table"]))
           table_rows_data == parse_table_data(raw_data, DefaultColumns)
       IN  content' = [intro |-> Get(results, "intro"),
                       table_html |-> IF "table" \in DOMAIN results
                                      THEN build_table_html(table_rows_data, DefaultColumns)
                                      ELSE <<>>,
                       table_md |-> IF "table" \in DOMAIN results
                                    THEN build_table_md(table_rows_data, DefaultColumns)
                                    ELSE <<>>,
                       sections |-> OrganizeSections(results, config.sections),
                       conclusion |-> Get(results, "conclusion")]
    /\ phase' = "render"
    /\ UNCHANGED <<inputVars, docVars, taskVars, session, closes, tasks, in_flight, results,
                   raised, saves, reported>>

\* run_async builds the document and calls save_output
SaveOutput ==
    /\ phase = "render"
    /\ \E output \in {"html", "md"} :
          document' = [format |-> output,
                       text |-> IF output = "md"
                                THEN build_full_md(Title, Rendered(content), Headings(config),
                                                   AllKeywords)
                                ELSE build_full_html(Title, Rendered(content), Headings(config),
                                                     AllKeywords)]
    /\ saves' = saves + 1
    /\ phase' = "saved"
    /\ UNCHANGED <<inputVars, pbar_total, taskVars, session, closes, tasks, in_flight, results,
                   raised, content, reported>>

\* the exception leaves run_async: main() prints it and re-raises
MainReport ==
    /\ phase = "propagate"
    /\ reported' = raised
    /\ phase' = "error"
    /\ UNCHANGED <<inputVars, docVars, taskVars, session, closes, tasks, in_flight, results,
                   raised, content, saves>>

\* the coroutines of the batch, interleaved at their await points
TaskStep(outcomes) ==
    \/ \E t \in DOMAIN tpc : StartTask(t)
    \/ \E t \in DOMAIN tpc, outcome \in outcomes : Respond(t, outcome)
    \/ \E t \in DOMAIN tpc : Wake(t)

\* one run of main()
Next ==
    \/ RunInit
    \/ ConfigNotFound
    \/ ConfigInvalid
    \/ Preview
    \/ ApiKeyMissing
    \/ OpenSession
    \/ BuildTaskList
    \/ Dispatch
    \/ TaskStep(PipelineOutcomes)
    \/ BatchReturn
    \/ CloseSession
    \/ OrganizeResults
    \/ SaveOutput
    \/ MainReport

Spec == Init /\ [][Next]_vars

\* one direct call of generate_batch inside the client's context manager
NextBatch ==
    \/ Dispatch
    \/ TaskStep(Outcomes)
    \/ BatchReturn
    \/ CloseSession

SpecBatch == InitBatch /\ [][NextBatch]_vars

\* every request ends (the response arrives or ClientTimeout(total=API_TIMEOUT) expires),
\* every sleep ends, and the event loop runs a coroutine that is ready
SpecBatchFair == SpecBatch /\ WF_vars(Dispatch) /\ WF_vars(TaskStep(Outcomes))

(***************************************************************************)
(* Properties.                                                             *)
(***************************************************************************)
Dispatched == DOMAIN tpc
Failed == {t \in Dispatched : tpc[t] = "failed"}
Done == {t \in Dispatched : tpc[t] = "done"}
AllSettled == Dispatched # {} /\ \A t \in Dispatched : Terminal(tpc[t])

\* generate_batch has raised / has returned
BatchRaised == Dispatched # {} /\ phase \in {"batch_raised", "propagate", "error"}
BatchReturned == phase \in {"batch_returned", "organize", "render", "saved"}
BatchOver == BatchRaised \/ BatchReturned

RECURSIVE SumSeq(_)
SumSeq(q) == IF q = <<>> THEN 0 ELSE Head(q) + SumSeq(Tail(q))

Min(S) == CHOOSE x \in S : \A y \in S : x <= y

\* C1: generate_batch is all-or-nothing. Once the call is over: if some task failed, the
\* call raised and no name->content mapping reached the caller; if every task succeeded,
\* it returned a mapping whose keys are exactly the task names and that maps each name
\* to the completion of that task's own prompt.
C1_AllOrNothing ==
    BatchOver =>
        IF Failed # {}
        THEN /\ BatchRaised
             /\ raised.type # "none"
             /\ DOMAIN results = {}
        ELSE /\ BatchReturned
             /\ raised = NoException
             /\ DOMAIN results = {tasks[t].name : t \in Dispatched}
             /\ \A t \in Dispatched : results[tasks[t].name] = Completion(tasks[t].prompt)

\* a batch that raised although one of its tasks had succeeded
C1_Witness == BatchRaised /\ Failed # {} /\ Done # {}

\* C2: no cancellation and no early exit. When generate_batch returns or raises, no task
\* is in flight: every task has either returned its content or made all MAX_RETRIES
\* attempts and raised the exhaustion error.
C2_NoEarlyExit ==
    BatchOver =>
        /\ in_flight = 0
        /\ \A t \in Dispatched :
             \/ tpc[t] = "done" /\ result[t].kind = "content"
             \/ /\ tpc[t] = "failed"
                /\ requests[t] = MAX_RETRIES
                /\ result[t].kind = "exception"
                /\ result[t].error.attempts = MAX_RETRIES

\* the task that finished first failed, and a sibling still made all its attempts
C2_Witness ==
    /\ BatchRaised
    /\ first_done \in Failed
    /\ \E u \in Dispatched : u # first_done /\ requests[u] = MAX_RETRIES

\* C3: a generate call issues at most MAX_RETRIES requests and terminates. It returns on
\* the first attempt that succeeds and issues no request afterwards; a failed attempt of
\* any class is followed by another attempt while fewer than MAX_RETRIES were made, and
\* by the final raise once MAX_RETRIES were made.
C3_Requests ==
    \A t \in Dispatched :
        /\ requests[t] <= MAX_RETRIES
        /\ tpc[t] = "awaiting" => requests[t] = attempt[t] + 1
        /\ tpc[t] = "sleeping" => requests[t] = attempt[t] + 1 /\ requests[t] < MAX_RETRIES
        /\ tpc[t] = "done" => result[t].kind = "content" /\ requests[t] = Len(delays[t]) + 1
        /\ tpc[t] = "failed" => result[t].kind = "exception" /\ requests[t] = MAX_RETRIES

C3_Step ==
    \A t \in Dispatched :
        /\ Terminal(tpc[t]) => tpc'[t] = tpc[t] /\ requests'[t] = requests[t]
        /\ (tpc[t] = "awaiting" /\ tpc'[t] # "awaiting" /\ tpc'[t] # "done") =>
               /\ last_error'[t].origin \in {"ClientError", "KeyError", "TimeoutError", "IndexError"}
               /\ tpc'[t] = IF requests[t] < MAX_RETRIES THEN "sleeping" ELSE "failed"
        /\ (tpc[t] = "sleeping" /\ tpc'[t] # "sleeping") =>
               tpc'[t] = "awaiting" /\ requests'[t] = requests[t] + 1

C3_BoundedRetries == []C3_Requests /\ [][C3_Step]_vars /\ <>AllSettled

\* a call that returned on its last permitted attempt, after a response-shape failure
C3_Witness ==
    \E t \in Dispatched :
        tpc[t] = "done" /\ requests[t] = MAX_RETRIES /\ last_error[t].origin = "KeyError"

\* C4: linear backoff. The sleeps of a call are RETRY_DELAY x 1, RETRY_DELAY x 2, ...,
\* one after each failed attempt except the last permitted one: none before the first
\* attempt, none after a success, none after the final failure. A call that succeeds on
\* attempt 3, and a call that exhausts its attempts, have slept RETRY_DELAY x 1 +
\* RETRY_DELAY x 2 in total.
FailedAttempts(t) ==
    IF tpc[t] \in {"awaiting", "done"} THEN requests[t] - 1 ELSE requests[t]

ExpectedDelays(n) == [j \in 1..n |-> RETRY_DELAY * j]

C4_LinearBackoff ==
    \A t \in Dispatched :
        /\ delays[t] = ExpectedDelays(IF FailedAttempts(t) < MAX_RETRIES
                                      THEN FailedAttempts(t) ELSE MAX_RETRIES - 1)
        /\ (tpc[t] = "done" /\ requests[t] = MAX_RETRIES) =>
               /\ result[t].kind = "content"
               /\ SumSeq(delays[t]) = RETRY_DELAY * 1 + RETRY_DELAY * 2
        /\ tpc[t] = "failed" => SumSeq(delays[t]) = RETRY_DELAY * 1 + RETRY_DELAY * 2

\* a call that failed twice and returned the content of its third attempt
C4_Witness ==
    \E t \in Dispatched :
        /\ tpc[t] = "done"
        /\ requests[t] = MAX_RETRIES
        /\ result[t].value = Completion(tasks[t].prompt)
        /\ delays[t] = <<RETRY_DELAY, RETRY_DELAY * 2>>

\* C5: the progress callback runs exactly once per task that ends in success and never
\* for a task that ends in failure, so once every task has finished the number of
\* updates is the number of successful tasks, and it never exceeds the number of tasks.
C5_ProgressOncePerSuccess ==
    /\ pbar_n <= Len(tasks)
    /\ AllSettled => pbar_n = Cardinality(Done)

\* C7: a call that exhausted its retries raised one error that names MAX_RETRIES attempts
\* and carries the error caught in the last attempt.
C7_LastErrorWrapped ==
    \A t \in Failed :
        /\ result[t].kind = "exception"
        /\ result[t].error.type = "APIConnectionError"
        /\ result[t].error.attempts = MAX_RETRIES
        /\ result[t].error.cause.type # "none"
        /\ result[t].error.cause.task = t
        /\ result[t].error.cause.attempt = MAX_RETRIES - 1

\* a call exhausted by a response-shape failure in its last attempt
C7_Witness ==
    \E t \in Failed :
        /\ result[t].error.cause.type = "APIResponseError"
        /\ result[t].error.cause.attempt = MAX_RETRIES - 1

\* C8: a batch that raises, raises the error of the failed task that comes first in the
\* task list, unchanged, whichever task failed first in time.
C8_FirstInDispatchOrder ==
    BatchRaised =>
        /\ Failed # {}
        /\ raised = result[Min(Failed)].error
        /\ raised.cause.task = Min(Failed)

\* two tasks failed, and the one that failed first in time is not the first in the list
C8_Witness ==
    /\ BatchRaised
    /\ Cardinality(Failed) >= 2
    /\ first_done \in Failed
    /\ first_done # Min(Failed)

\* C6: the session is opened before any request and closed exactly once, after every
\* task of the batch has finished, on the success path and on the failure path; no
\* request is issued while the session is not open.
C6_SessionLifecycle ==
    /\ late_requests = 0
    /\ closes <= 1
    /\ (closes = 1) <=> (session = "closed")
    /\ session = "closed" => AllSettled
    /\ phase \in {"session", "call", "gather", "batch_returned", "batch_raised"} =>
           session = "open"
    /\ phase \in {"organize", "render", "saved"} => closes = 1
    /\ (phase \in {"propagate", "error"} /\ Dispatched # {}) => closes = 1

\* a failed batch whose session was closed on the way out
C6_Witness == phase = "error" /\ closes = 1 /\ Failed # {} /\ Done # {}

\* C9: section order is independent of completion order. After a successful
\* generate_all_content, content.sections has one entry per configured section and
\* entry i is the completion of the task section_<i>, built from section i.
C9_SectionOrder ==
    phase \in {"render", "saved"} =>
        /\ Len(content.sections) = config.sections
        /\ \A i \in 0..(config.sections - 1) :
             /\ content.sections[i + 1] = Completion(build_section_prompt(config, i))
             /\ \E t \in Dispatched :
                  /\ tasks[t].name = SectionName(i)
                  /\ tasks[t].prompt = build_section_prompt(config, i)
                  /\ result[t].value = content.sections[i + 1]

\* two sections, the second of which completed before every other task
C9_Witness ==
    /\ phase = "render"
    /\ config.sections = 2
    /\ first_done \in Dispatched
    /\ tasks[first_done].name = "section_1"

\* C10: no partial output. If a task of the batch exhausted its retries, save_output is
\* never called and the error reaches main(); save_output is called at most once, and
\* only after every task of the batch succeeded.
C10_NoPartialOutput ==
    /\ saves <= 1
    /\ Failed # {} => saves = 0 /\ ~BatchReturned /\ phase # "exit"
    /\ saves = 1 => AllSettled /\ Done = Dispatched
    /\ (Failed # {} /\ phase = "error") =>
           /\ reported = result[Min(Failed)].error
           /\ reported.type = "APIConnectionError"
    /\ (Failed # {} /\ ~ENABLED Next) => phase = "error"

\* three tasks, the second exhausted its retries, the first and third succeeded: the
\* run reported the second task's error and saved nothing
C10_Witness ==
    /\ phase = "error"
    /\ Len(tasks) = 3
    /\ Failed = {2}
    /\ Done = {1, 3}
    /\ saves = 0
    /\ reported = result[2].error

(***************************************************************************)
(* The task list.                                                          *)
(***************************************************************************)
TableRequested == config.table.enabled /\ config.table.rows > 0

TaskListBuilt == phase \in {"call", "gather", "batch_returned", "batch_raised", "organize",
                            "render", "saved"}

\* C11: the task list is intro, then the table task exactly when the table is enabled with a
\* positive row count, then section_0 .. section_{n-1} in index order, then conclusion; the
\* names are pairwise distinct; the number of tasks, and of tasks dispatched, is
\* config.api_call_count, the total of the progress bar
C11_TaskList ==
    TaskListBuilt =>
        LET n == config.sections
            off == IF TableRequested THEN 1 ELSE 0
        IN  /\ Len(tasks) = 2 + off + n
            /\ tasks[1].name = "intro"
            /\ TableRequested => tasks[2].name = "table"
            /\ (\E k \in DOMAIN tasks : tasks[k].name = "table") => TableRequested
            /\ \A i \in 0..(n - 1) : tasks[2 + off + i].name = "section_" \o IntToStr(i)
            /\ tasks[Len(tasks)].name = "conclusion"
            /\ \A j, k \in DOMAIN tasks : tasks[j].name = tasks[k].name => j = k
            /\ Len(tasks) = api_call_count(config)
            /\ pbar_total = api_call_count(config)
            /\ phase # "call" => DOMAIN tpc = DOMAIN tasks

\* a table task and two section tasks are dispatched
C11_Witness ==
    /\ phase = "gather"
    /\ TableRequested
    /\ config.sections = 2
    /\ Len(tasks) = 5
    /\ DOMAIN tpc = 1..5

\* columns a schema is made of
ColumnPool ==
    <<[name |-> "item", header |-> <<"I">>, type |-> "text"],
      [name |-> "rating", header |-> <<"R">>, type |-> "stars"],
      [name |-> "feature", header |-> <<"F">>, type |-> "text"],
      [name |-> "value", header |-> <<"V">>, type |-> "text"]>>

Schemas == {SubSeq(ColumnPool, 1, n) : n \in 0..MaxColumns}

\* the characters raw table text is drawn from
RawChars == {"a", "b", " ", "|", "\n"}

ParseJobs ==
    [fn : {"parse_table_data"}, raw_data : Strings(RawChars, MaxRawLen), columns : Schemas]

\* parse_table_data(raw_data, columns)
ParseTableData ==
    /\ stage = "called"
    /\ job.fn = "parse_table_data"
    /\ out' = parse_table_data(job.raw_data, job.columns)
    /\ stage' = "returned"
    /\ UNCHANGED <<job, seg, pipelineVars>>

\* the values of table cells
CellValues == {<<"a">>, <<"7">>}

\* the sequences over a set up to a length
Lists(S, maxlen) == UNION {[1..n -> S] : n \in 0..maxlen}

ColumnNames(columns) == {columns[k].name : k \in DOMAIN columns}

BuildJobs ==
    UNION {[fn : {"build_table"},
            rows : Lists([ColumnNames(columns) -> CellValues], MaxRows),
            columns : {columns}] : columns \in Schemas}

\* build_table_html(rows, columns) and build_table_md(rows, columns)
BuildTable ==
    /\ stage = "called"
    /\ job.fn = "build_table"
    /\ out' = [html |-> build_table_html(job.rows, job.columns),
               md |-> build_table_md(job.rows, job.columns)]
    /\ stage' = "returned"
    /\ UNCHANGED <<job, seg, pipelineVars>>

\* parse_table_data applied to the Markdown table just built, with the same columns
ReparseTable ==
    /\ stage = "returned"
    /\ job.fn = "build_table"
    /\ out' = [html |-> out.html, md |-> out.md,
               reparsed |-> parse_table_data(out.md, job.columns)]
    /\ stage' = "reparsed"
    /\ UNCHANGED <<job, seg, pipelineVars>>

\* the lines texts are made of: blank, plain, list lines, a padded list line
LinePool == {<<>>, <<"a">>, <<"b">>, <<"-", " ", "x">>, <<"-", " ", "y">>, <<" ", "*", " ", "b">>}

Texts == {join(<<"\n">>, ls) : ls \in Lists(LinePool, MaxLines)}

\* the texts rendered with keywords
KeywordTexts == {join(<<"\n">>, ls) : ls \in Lists(LinePool, MaxKeywordLines)}

\* the keywords handed to text_to_html and text_to_md: a word of the text, and words that
\* are also the names of elements
TextKeywordPool == {<<"a">>, <<"p">>, <<"l", "i">>}

TextKeywordLists == UNION {[1..n -> TextKeywordPool] : n \in 1..MaxKeywords}

TextJobs ==
    [fn : {"text_to_markup"}, text : Texts, keywords : {<<>>}]
        \cup [fn : {"text_to_markup"}, text : KeywordTexts, keywords : TextKeywordLists]

\* text_to_html(text, keywords) and text_to_md(text, keywords) are entered: the text is
\* stripped, an empty text returns at once, otherwise the buffers are created
SegmentEnter ==
    /\ stage = "called"
    /\ job.fn = "text_to_markup"
    /\ LET text == strip(job.text)
       IN  IF text = <<>>
           THEN /\ seg' = [fn |-> "text_to_markup", lines |-> <<>>, i |-> 1,
                           html |-> NewBuffers, md |-> NewBuffers]
                /\ out' = [html |-> <<>>, md |-> <<>>]
                /\ stage' = "returned"
           ELSE /\ seg' = [fn |-> "text_to_markup", lines |-> split(text, "\n"), i |-> 1,
                           html |-> NewBuffers, md |-> NewBuffers]
                /\ stage' = "running"
                /\ UNCHANGED out
    /\ UNCHANGED <<job, pipelineVars>>

\* the next line is processed
SegmentLine ==
    /\ stage = "running"
    /\ job.fn = "text_to_markup"
    /\ seg.i <= Len(seg.lines)
    /\ seg' = [seg EXCEPT !.i = @ + 1,
                          !.html = html_line(@, seg.lines[seg.i]),
                          !.md = md_line(@, seg.lines[seg.i])]
    /\ UNCHANGED <<job, stage, out, pipelineVars>>

\* the loop is over: last flushes, join, highlighting, return
SegmentReturn ==
    /\ stage = "running"
    /\ job.fn = "text_to_markup"
    /\ seg.i > Len(seg.lines)
    /\ LET h == html_finish(seg.html, job.keywords)
           m == md_finish(seg.md, job.keywords)
       IN  /\ seg' = [seg EXCEPT !.html = h.m, !.md = m.m]
           /\ out' = [html |-> h.text, md |-> m.text]
    /\ stage' = "returned"
    /\ UNCHANGED <<job, pipelineVars>>

\* the characters highlighted texts are drawn from
HighlightChars == {"a", "A", "b"}

\* the keywords keyword lists are made of
KeywordPool == {<<"a">>, <<"b">>, <<"a", "b">>, <<"A", "a">>}

HighlightJobs ==
    [fn : {"highlight_keywords"},
     text : Strings(HighlightChars, MaxHighlightLen),
     keywords : Lists(KeywordPool, MaxKeywords)]

\* highlight_keywords(text, keywords) and highlight_keywords_md(text, keywords) are entered:
\* an empty keyword list returns the text at once, otherwise highlighted = text;
\* seg.html and seg.md hold the successive values of highlighted
HighlightEnter ==
    /\ stage = "called"
    /\ job.fn = "highlight_keywords"
    /\ IF job.keywords = <<>>
       THEN /\ out' = [html |-> job.text, md |-> job.text]
            /\ stage' = "returned"
            /\ UNCHANGED seg
       ELSE /\ seg' = [fn |-> "highlight_keywords", i |-> 1,
                       html |-> <<job.text>>, md |-> <<job.text>>]
            /\ stage' = "running"
            /\ UNCHANGED out
    /\ UNCHANGED <<job, pipelineVars>>

\* the next keyword is applied
HighlightKeyword ==
    /\ stage = "running"
    /\ job.fn = "highlight_keywords"
    /\ seg.i <= Len(job.keywords)
    /\ seg' = [seg EXCEPT
                 !.i = @ + 1,
                 !.html = Append(@, html_highlight_one(@[Len(@)], job.keywords[seg.i])),
                 !.md = Append(@, md_highlight_one(@[Len(@)], job.keywords[seg.i]))]
    /\ UNCHANGED <<job, stage, out, pipelineVars>>

\* the loop is over: highlighted is returned
HighlightReturn ==
    /\ stage = "running"
    /\ job.fn = "highlight_keywords"
    /\ seg.i > Len(job.keywords)
    /\ out' = [html |-> seg.html[Len(seg.html)], md |-> seg.md[Len(seg.md)]]
    /\ stage' = "returned"
    /\ UNCHANGED <<job, seg, pipelineVars>>

\* the headings, section texts and table artifacts documents are assembled from
HeadingPool == {<<"H">>, <<"G">>}

SectionTexts == {<<"a">>, <<"-", " ", "x">>}

TableArtifacts == {<<>>, <<" ">>, <<"t">>}

AssemblyJobs ==
    [fn : {"build_full"},
     title : {<<"T">>},
     content : [intro : {<<"i">>},
                table_html : TableArtifacts,
                table_md : TableArtifacts,
                sections : Lists(SectionTexts, MaxSections),
                conclusion : {<<"c">>}],
     headings : Lists(HeadingPool, MaxSections),
     keywords : {<<>>}]

\* build_full_html(title, content, headings, keywords) and build_full_md(...)
BuildFull ==
    /\ stage = "called"
    /\ job.fn = "build_full"
    /\ out' = [html |-> build_full_html(job.title, job.content, job.headings, job.keywords),
               md |-> build_full_md(job.title, job.content, job.headings, job.keywords)]
    /\ stage' = "returned"
    /\ UNCHANGED <<job, seg, pipelineVars>>

(***************************************************************************)
(* The table artifacts.                                                    *)
(***************************************************************************)
\* a document has a table block: the table frame or the table heading is one of its lines
HasTableBlock(text) ==
    LET ls == split(text, "\n")
    IN  \E k \in DOMAIN ls :
            ls[k] \in {<<"<", "d", "i", "v", " ", "c", "l", "a", "s", "s", "=", "\"", "c", "o", "m", "p", "a", "r", "i", "s", "o", "n", "-", "t", "a", "b", "l", "e", "\"", ">">>,
                       <<"<", "h", "2", ">">> \o TableHeader \o <<"<", "/", "h", "2", ">">>,
                       <<"#", "#", " ">> \o TableHeader}

\* C12: with the table disabled or its row count <= 0, no table task is dispatched,
\* content.table_html and content.table_md are both the empty string after generation, and
\* the rendered document, HTML or Markdown, contains no table block
C12_NoTableUnlessRequested ==
    (~config.table.enabled \/ config.table.rows <= 0) =>
        /\ \A k \in DOMAIN tasks : tasks[k].name # "table"
        /\ "table" \notin DOMAIN results
        /\ content.table_html = <<>>
        /\ content.table_md = <<>>
        /\ phase \in {"render", "saved"} =>
              /\ ~HasTableBlock(build_full_html(Title, Rendered(content), Headings(config),
                                                AllKeywords))
              /\ ~HasTableBlock(build_full_md(Title, Rendered(content), Headings(config),
                                              AllKeywords))
        /\ ~HasTableBlock(document.text)

\* a run with the table enabled and a row count of zero saved its document
C12_Witness ==
    /\ phase = "saved"
    /\ config.table.enabled
    /\ config.table.rows = 0
    /\ config.sections = 1
    /\ document.format = "html"
    /\ document.text # <<>>
    /\ content.table_html = <<>>
    /\ ~HasTableBlock(document.text)

(***************************************************************************)
(* Star ratings.                                                           *)
(***************************************************************************)
\* the text is optional whitespace, an optional sign, decimal digits (single underscores
\* allowed between digits), optional whitespace
IsIntegerText(v) ==
    \E a \in DOMAIN v : \E b \in a..Len(v) :
        /\ \A i \in 1..(a - 1) : v[i] \in Whitespace
        /\ \A i \in (b + 1)..Len(v) : v[i] \in Whitespace
        /\ LET first == IF v[a] \in {"+", "-"} THEN a + 1 ELSE a
           IN  /\ first <= b
               /\ IsDigit(v[first])
               /\ IsDigit(v[b])
               /\ \A i \in first..b : IsDigit(v[i]) \/ (v[i] = "_" /\ v[i - 1] # "_")

\* the integer such a text denotes
IntegerOf(v) ==
    LET ds == SelectSeq(v, IsDigit)
        magnitude == SumSeq([i \in DOMAIN ds |-> DigitValue(ds[i]) * 10 ^ (Len(ds) - i)])
    IN  IF \E i \in DOMAIN v : v[i] = "-" THEN 0 - magnitude ELSE magnitude

\* C15: a value that parses as an integer n after trimming becomes exactly 1 star when n <= 1,
\* n stars when 1 <= n <= 5 and 5 stars when n >= 5; a value that does not parse as an integer
\* is returned unchanged; the HTML and the Markdown value_to_stars return the same result
C15_StarClamp ==
    (stage = "returned" /\ job.fn = "value_to_stars") =>
        LET v == job.value
            n == IntegerOf(v)
        IN  /\ IsIntegerText(v) =>
                  /\ \A i \in DOMAIN out.html : out.html[i] = Star
                  /\ n <= 1 => Len(out.html) = 1
                  /\ (1 <= n /\ n <= 5) => Len(out.html) = n
                  /\ n >= 5 => Len(out.html) = 5
            /\ ~IsIntegerText(v) => out.html = v
            /\ out.md = out.html

\* the padded value " 7" gave five stars, as "-3" gave one and "x" came back unchanged
C15_Witness ==
    /\ stage = "returned"
    /\ job.fn = "value_to_stars"
    /\ job.value = <<" ", "7">>
    /\ out.html = <<Star, Star, Star, Star, Star>>
    /\ out.md = out.html

(***************************************************************************)
(* Table parsing.                                                          *)
(***************************************************************************)
\* C13: with N columns, a non-blank line containing '|' yields a row iff splitting it on '|'
\* gives at least N fields; a kept row maps column k (k = 1..N) to the trimmed k-th field
\* and holds nothing else; lines with fewer fields are dropped; rows come in line order
C13_ParseTableData ==
    (stage = "returned" /\ job.fn = "parse_table_data") =>
        LET N == Len(job.columns)
            Fields(line) == split(line, "|")
            Kept(line) ==
                /\ \E i \in DOMAIN line : line[i] \notin Whitespace
                /\ \E i \in DOMAIN line : line[i] = "|"
                /\ Len(Fields(line)) >= N
            kept == SelectSeq(split(job.raw_data, "\n"), Kept)
        IN  /\ Len(out) = Len(kept)
            /\ \A r \in DOMAIN kept :
                  /\ DOMAIN out[r] = {job.columns[k].name : k \in 1..N}
                  /\ \A k \in 1..N : out[r][job.columns[k].name] = strip(Fields(kept[r])[k])

\* two lines of two fields each gave two rows, in line order
C13_Witness ==
    /\ stage = "returned"
    /\ job.fn = "parse_table_data"
    /\ job.raw_data = <<"a", "|", "\n", "|", "b">>
    /\ Len(job.columns) = 2
    /\ Len(out) = 2
    /\ out[1]["item"] = <<"a">>
    /\ out[1]["rating"] = <<>>
    /\ out[2]["item"] = <<>>
    /\ out[2]["rating"] = <<"b">>

\* C14: for non-empty rows and a non-empty schema, parse_table_data(build_table_md(rows,
\* columns), columns) yields the same rows (same number, same order) with the same values
\* in every non-stars column
C14_MarkdownRoundTrip ==
    (stage = "reparsed" /\ job.fn = "build_table" /\ job.rows # <<>> /\ job.columns # <<>>) =>
        /\ Len(out.reparsed) = Len(job.rows)
        /\ \A r \in DOMAIN job.rows : \A k \in DOMAIN job.columns :
              (r <= Len(out.reparsed) /\ job.columns[k].type # "stars") =>
                  row_get(out.reparsed[r], job.columns[k].name, <<>>)
                      = job.rows[r][job.columns[k].name]

(***************************************************************************)
(* Segmentation.                                                           *)
(***************************************************************************)
Segmented == stage = "returned" /\ job.fn = "text_to_markup"

\* the lines of a text, each trimmed
TrimmedLines(text) == LET ls == split(text, "\n") IN [k \in DOMAIN ls |-> strip(ls[k])]

\* the kind of each line
LineKinds(lines) ==
    [k \in DOMAIN lines |->
        IF lines[k] = <<>> THEN "blank"
        ELSE IF IsListLine(lines[k]) THEN "list" ELSE "paragraph"]

\* what each line contributes: itself, or its text after the marker
LineContents(lines) ==
    [k \in DOMAIN lines |-> IF IsListLine(lines[k]) THEN DropTwo(lines[k]) ELSE lines[k]]

\* one block per maximal run of consecutive lines of one kind, blank lines apart, in the
\* order of the runs
ExpectedBlocks(text) ==
    LET lines == TrimmedLines(text)
        kind == LineKinds(lines)
        body == LineContents(lines)
        starts == {k \in DOMAIN lines : kind[k] # "blank" /\ (k = 1 \/ kind[k - 1] # kind[k])}
        end == [k \in starts |->
                  CHOOSE j \in k..Len(lines) :
                      /\ \A i \in k..j : kind[i] = kind[k]
                      /\ j = Len(lines) \/ kind[j + 1] # kind[k]]
        nth == [n \in 1..Cardinality(starts) |->
                  CHOOSE k \in starts : Cardinality({t \in starts : t <= k}) = n]
    IN  [n \in 1..Cardinality(starts) |->
            [kind |-> kind[nth[n]],
             lines |-> [i \in 1..(end[nth[n]] - nth[n] + 1) |-> body[nth[n] + i - 1]]]]

RECURSIVE ConcatAll(_)
ConcatAll(seqs) == IF seqs = <<>> THEN <<>> ELSE Head(seqs) \o ConcatAll(Tail(seqs))

\* the contents of the non-blank lines of a text, in input order
NonBlankContents(text) ==
    LET lines == TrimmedLines(text)
        body == LineContents(lines)
        idx == SelectSeq([k \in DOMAIN lines |-> k], LAMBDA k : lines[k] # <<>>)
    IN  [n \in DOMAIN idx |-> body[idx[n]]]

BlockLines(blocks) == ConcatAll([n \in DOMAIN blocks |-> blocks[n].lines])

\* C16: the blocks come in the order their first lines are met; each maximal run of
\* consecutive non-list, non-blank lines is one paragraph, its lines joined by single spaces;
\* each maximal run of consecutive list lines is one list, one item per line, marker removed;
\* every non-blank line is in exactly one block
C16_Segmentation ==
    Segmented =>
        LET expected == ExpectedBlocks(job.text)
            contents == NonBlankContents(job.text)
        IN  /\ seg.html.blocks = expected
            /\ seg.md.blocks = expected
            /\ BlockLines(seg.html.blocks) = contents
            /\ BlockLines(seg.md.blocks) = contents
            /\ Len(seg.html.paragraphs) = Len(expected)
            /\ Len(seg.md.paragraphs) = Len(expected)
            /\ \A n \in DOMAIN expected :
                  expected[n].kind = "paragraph" =>
                      /\ seg.md.paragraphs[n] = join(<<" ">>, expected[n].lines)
                      /\ seg.html.paragraphs[n]
                            = <<"<", "p", ">">> \o join(<<" ">>, expected[n].lines) \o <<"<", "/", "p", ">">>
            /\ \A n \in DOMAIN expected :
                  expected[n].kind = "list" =>
                      split(seg.md.paragraphs[n], "\n")
                          = [k \in DOMAIN expected[n].lines |-> <<"-", " ">> \o expected[n].lines[k]]

\* "a\nb\n\n- x\n- y" gave the paragraph "a b" followed by the list [x, y]
C16_Witness ==
    /\ Segmented
    /\ job.text = <<"a", "\n", "b", "\n", "\n", "-", " ", "x", "\n", "-", " ", "y">>
    /\ seg.html.blocks = <<[kind |-> "paragraph", lines |-> <<<<"a">>, <<"b">>>>],
                           [kind |-> "list", lines |-> <<<<"x">>, <<"y">>>>]>>
    /\ out.html = <<"<", "p", ">", "a", " ", "b", "<", "/", "p", ">", "\n", "<", "u", "l", ">", "\n", " ", " ", "<", "l", "i", ">", "x", "<", "/", "l", "i", ">", "\n", " ", " ", "<", "l", "i", ">", "y", "<", "/", "l", "i", ">", "\n", "<", "/", "u", "l", ">">>
    /\ out.md = <<"a", " ", "b", "\n", "\n", "-", " ", "x", "\n", "-", " ", "y">>

(***************************************************************************)
(* The two renderers side by side.                                         *)
(***************************************************************************)
\* the cells of an HTML table: the text of its <td> lines
HtmlCells(html) ==
    LET tds == SelectSeq(split(html, "\n"), LAMBDA l : startswith(l, <<" ", " ", " ", " ", " ", " ", "<", "t", "d", ">">>))
    IN  [k \in DOMAIN tds |-> SubSeq(tds[k], Len(<<" ", " ", " ", " ", " ", " ", "<", "t", "d", ">">>) + 1, Len(tds[k]) - Len(<<"<", "/", "t", "d", ">">>))]

\* the <tr> lines of the body of an HTML table
HtmlRowCount(html) ==
    Len(SelectSeq(split(html, "\n"), LAMBDA l : l = <<" ", " ", " ", " ", "<", "t", "r", ">">>)) - 1

\* the cells of the data lines of a Markdown table (cells without '|')
MdCells(md) ==
    LET ls == split(md, "\n")
        data == SubSeq(ls, 3, Len(ls))
        cells(l) == LET f == split(l, "|")
                    IN  [k \in 1..(Len(f) - 2) |-> SubSeq(f[k + 1], 2, Len(f[k + 1]) - 1)]
    IN  ConcatAll([r \in DOMAIN data |-> cells(data[r])])

MdRowCount(md) == Len(split(md, "\n")) - 2

\* C19: text_to_html and text_to_md (without keywords) produce the same sequence of blocks:
\* as many blocks, the same kind at each position, the same paragraph lines or list items at
\* each position; build_table_html and build_table_md emit the same cell values in the same
\* row and column order, and each returns the empty string exactly when there are no rows
\* or no columns
C19_SameSegmentation ==
    /\ (Segmented /\ job.keywords = <<>>) =>
          /\ Len(seg.html.blocks) = Len(seg.md.blocks)
          /\ Len(seg.html.paragraphs) = Len(seg.md.paragraphs)
          /\ \A n \in DOMAIN seg.html.blocks :
                /\ seg.html.blocks[n].kind = seg.md.blocks[n].kind
                /\ seg.html.blocks[n].lines = seg.md.blocks[n].lines
    /\ (stage = "returned" /\ job.fn = "build_table") =>
          /\ out.html = <<>> <=> (job.rows = <<>> \/ job.columns = <<>>)
          /\ out.md = <<>> <=> (job.rows = <<>> \/ job.columns = <<>>)
          /\ out.html # <<>> =>
                /\ HtmlCells(out.html) = MdCells(out.md)
                /\ Len(HtmlCells(out.html)) = Len(job.rows) * Len(job.columns)
                /\ HtmlRowCount(out.html) = Len(job.rows)
                /\ MdRowCount(out.md) = Len(job.rows)

\* a text with a paragraph between two lists went through both renderers
C19_Witness ==
    /\ Segmented
    /\ job.keywords = <<>>
    /\ Len(seg.html.blocks) = 3
    /\ seg.md.blocks[1].kind = "list"
    /\ seg.md.blocks[2].kind = "paragraph"
    /\ seg.md.blocks[3].kind = "list"
    /\ Len(seg.html.paragraphs) = 3

(***************************************************************************)
(* The buffers of the segmentation.                                        *)
(***************************************************************************)
BothEmpty(m) == m.current_para = <<>> /\ m.current_list = <<>>

\* C20: after any prefix of the lines at most one of current_para and current_list is
\* non-empty; after a blank line and at the end both are empty; so flush_para and
\* flush_list, in either order, emit the same blocks
C20_BufferInvariant ==
    seg.fn = "text_to_markup" =>
        /\ seg.html.current_para = <<>> \/ seg.html.current_list = <<>>
        /\ seg.md.current_para = <<>> \/ seg.md.current_list = <<>>
        /\ (stage = "running" /\ seg.i > 1 /\ strip(seg.lines[seg.i - 1]) = <<>>) =>
              BothEmpty(seg.html) /\ BothEmpty(seg.md)
        /\ stage = "returned" => BothEmpty(seg.html) /\ BothEmpty(seg.md)
        /\ html_flush_list(html_flush_para(seg.html)) = html_flush_para(html_flush_list(seg.html))
        /\ md_flush_list(md_flush_para(seg.md)) = md_flush_para(md_flush_list(seg.md))

\* a list line has just followed a paragraph line: the paragraph is flushed, the list
\* buffer holds the item
C20_Witness ==
    /\ stage = "running"
    /\ seg.fn = "text_to_markup"
    /\ seg.i = 3
    /\ seg.lines[1] = <<"a">>
    /\ seg.lines[2] = <<"-", " ", "x">>
    /\ seg.html.current_para = <<>>
    /\ seg.html.current_list = <<<<"x">>>>
    /\ seg.html.paragraphs = <<<<"<", "p", ">", "a", "<", "/", "p", ">">>>>

(***************************************************************************)
(* Keyword highlighting.                                                   *)
(***************************************************************************)
Highlighted == stage = "returned" /\ job.fn = "highlight_keywords"

\* some part of text is the given string
Contains(text, part) ==
    \E j \in 1..(Len(text) - Len(part) + 1) : SubSeq(text, j, j + Len(part) - 1) = part

\* C17: for each keyword of a non-empty keyword list, every case-insensitive occurrence of
\* it in the text is wrapped in emphasis markup, with the casing of the occurrence; with an
\* empty keyword list the text is returned unchanged
C17_EveryOccurrenceWrapped ==
    Highlighted =>
        /\ job.keywords = <<>> => (out.html = job.text /\ out.md = job.text)
        /\ \A k \in DOMAIN job.keywords : \A i \in DOMAIN job.text :
              MatchesAt(job.text, i, job.keywords[k]) =>
                  LET occurrence == SubSeq(job.text, i, i + Len(job.keywords[k]) - 1)
                  IN  /\ Contains(out.html, <<"<", "b", ">">> \o occurrence \o <<"<", "/", "b", ">">>)
                      /\ Contains(out.md, <<"*", "*">> \o occurrence \o <<"*", "*">>)

\* new is old with the occurrences of keyword wrapped: an occurrence is wrapped unless a
\* wrapped occurrence to its left overlaps it, its characters are copied as they are, and
\* nothing else is added or removed
WrappedIn(old, new, keyword, open, close) ==
    LET n == Len(keyword)
        wrapped[p \in DOMAIN old] ==
            /\ MatchesAt(old, p, keyword)
            /\ \A a \in 1..(p - 1) : (a + n > p) => ~wrapped[a]
        S == {p \in DOMAIN old : wrapped[p]}
        pos(i) == i + Len(open) * Cardinality({a \in S : a <= i})
                    + Len(close) * Cardinality({a \in S : a + n - 1 < i})
    IN  /\ Len(new) = Len(old) + Cardinality(S) * (Len(open) + Len(close))
        /\ \A i \in DOMAIN old : new[pos(i)] = old[i]
        /\ \A a \in S :
              /\ SubSeq(new, pos(a) - Len(open), pos(a) - 1) = open
              /\ SubSeq(new, pos(a + n - 1) + 1, pos(a + n - 1) + Len(close)) = close

\* C17, amended: the keywords are applied one after another in list order; applying a
\* keyword wraps its case-insensitive occurrences in the text as it then stands (the markup
\* of earlier keywords included), from left to right and without overlap, each with its own
\* casing; the result of the last keyword is returned; with an empty keyword list the text
\* is returned unchanged
C17_OccurrencesWrappedInTurn ==
    /\ Highlighted =>
          /\ job.keywords = <<>> => (out.html = job.text /\ out.md = job.text)
          /\ job.keywords # <<>> =>
                /\ Len(seg.html) = Len(job.keywords) + 1
                /\ Len(seg.md) = Len(job.keywords) + 1
                /\ out.html = seg.html[Len(seg.html)]
                /\ out.md = seg.md[Len(seg.md)]
    /\ seg.fn = "highlight_keywords" =>
          /\ seg.html[1] = job.text
          /\ seg.md[1] = job.text
          /\ \A k \in 1..(Len(seg.html) - 1) :
                /\ WrappedIn(seg.html[k], seg.html[k + 1], job.keywords[k], <<"<", "b", ">">>, <<"<", "/", "b", ">">>)
                /\ WrappedIn(seg.md[k], seg.md[k + 1], job.keywords[k], <<"*", "*">>, <<"*", "*">>)

\* "Ab" with the keywords "a" and "ab": the first keyword wrapped "A", keeping its casing,
\* and the second then had no occurrence left
C17_Witness ==
    /\ Highlighted
    /\ job.text = <<"A", "b">>
    /\ job.keywords = <<<<"a">>, <<"a", "b">>>>
    /\ out.html = <<"<", "b", ">", "A", "<", "/", "b", ">", "b">>
    /\ out.md = <<"*", "*", "A", "*", "*", "b">>

(***************************************************************************)
(* The full document.                                                      *)
(***************************************************************************)
Assembled == stage = "returned" /\ job.fn = "build_full"

\* the position of the n-th line satisfying P
NthIndex(ls, P(_), n) ==
    CHOOSE i \in DOMAIN ls : P(ls[i]) /\ Cardinality({j \in 1..i : P(ls[j])}) = n

\* the lines of a rendered body occupy positions from..
BodyAt(ls, from, body) ==
    LET b == split(body, "\n")
    IN  /\ from + Len(b) - 1 <= Len(ls)
        /\ SubSeq(ls, from, from + Len(b) - 1) = b

SectionCount == min(Len(job.headings), Len(job.content.sections))

HtmlDocumentInOrder ==
    LET ls == split(out.html, "\n")
        hasTable == strip(job.content.table_html) # <<>>
        off == IF hasTable THEN 1 ELSE 0
        IsFrame(l) == l \in {<<"<", "d", "i", "v", " ", "c", "l", "a", "s", "s", "=", "\"", "i", "n", "t", "r", "o", "\"", ">">>, <<"<", "d", "i", "v", " ", "c", "l", "a", "s", "s", "=", "\"", "c", "o", "m", "p", "a", "r", "i", "s", "o", "n", "-", "t", "a", "b", "l", "e", "\"", ">">>, <<"<", "s", "e", "c", "t", "i", "o", "n", ">">>, <<"<", "d", "i", "v", " ", "c", "l", "a", "s", "s", "=", "\"", "c", "o", "n", "c", "l", "u", "s", "i", "o", "n", "\"", ">">>}
        IsH2(l) == startswith(l, <<"<", "h", "2", ">">>)
        frames == SelectSeq(ls, IsFrame)
        h2s == SelectSeq(ls, IsH2)
    IN  /\ ls[1] = <<"<", "h", "1", ">">> \o job.title \o <<"<", "/", "h", "1", ">">>
        /\ frames = <<<<"<", "d", "i", "v", " ", "c", "l", "a", "s", "s", "=", "\"", "i", "n", "t", "r", "o", "\"", ">">>>>
                    \o (IF hasTable THEN <<<<"<", "d", "i", "v", " ", "c", "l", "a", "s", "s", "=", "\"", "c", "o", "m", "p", "a", "r", "i", "s", "o", "n", "-", "t", "a", "b", "l", "e", "\"", ">">>>> ELSE <<>>)
                    \o [k \in 1..SectionCount |-> <<"<", "s", "e", "c", "t", "i", "o", "n", ">">>]
                    \o <<<<"<", "d", "i", "v", " ", "c", "l", "a", "s", "s", "=", "\"", "c", "o", "n", "c", "l", "u", "s", "i", "o", "n", "\"", ">">>>>
        /\ h2s = (IF hasTable THEN <<<<"<", "h", "2", ">">> \o TableHeader \o <<"<", "/", "h", "2", ">">>>> ELSE <<>>)
                 \o [k \in 1..SectionCount |-> <<"<", "h", "2", ">">> \o job.headings[k] \o <<"<", "/", "h", "2", ">">>]
                 \o <<<<"<", "h", "2", ">">> \o ConclusionHeader \o <<"<", "/", "h", "2", ">">>>>
        /\ BodyAt(ls, NthIndex(ls, IsFrame, 1) + 1, text_to_html(job.content.intro, job.keywords))
        /\ hasTable => BodyAt(ls, NthIndex(ls, IsH2, 1) + 1, strip(job.content.table_html))
        /\ \A k \in 1..SectionCount :
              /\ NthIndex(ls, IsH2, off + k) = NthIndex(ls, IsFrame, 1 + off + k) + 1
              /\ BodyAt(ls, NthIndex(ls, IsH2, off + k) + 1,
                        text_to_html(job.content.sections[k], job.keywords))
        /\ BodyAt(ls, NthIndex(ls, IsH2, off + SectionCount + 1) + 1,
                  text_to_html(job.content.conclusion, job.keywords))
        /\ ls[Len(ls)] = <<"<", "/", "d", "i", "v", ">">>
        /\ NthIndex(ls, IsFrame, Len(frames)) = NthIndex(ls, IsH2, Len(h2s)) - 1

MdDocumentInOrder ==
    LET ls == split(out.md, "\n")
        hasTable == strip(job.content.table_md) # <<>>
        off == IF hasTable THEN 1 ELSE 0
        IsH2(l) == startswith(l, <<"#", "#", " ">>)
        h2s == SelectSeq(ls, IsH2)
        conclusion == split(text_to_md(job.content.conclusion, job.keywords), "\n")
    IN  /\ ls[1] = <<"#", " ">> \o job.title
        /\ h2s = (IF hasTable THEN <<<<"#", "#", " ">> \o TableHeader>> ELSE <<>>)
                 \o [k \in 1..SectionCount |-> <<"#", "#", " ">> \o job.headings[k]]
                 \o <<<<"#", "#", " ", "C", "o", "n", "c", "l", "u", "s", "i", "o", "n">>>>
        /\ BodyAt(ls, 3, text_to_md(job.content.intro, job.keywords))
        /\ hasTable => BodyAt(ls, NthIndex(ls, IsH2, 1) + 2, strip(job.content.table_md))
        /\ \A k \in 1..SectionCount :
              BodyAt(ls, NthIndex(ls, IsH2, off + k) + 2,
                     text_to_md(job.content.sections[k], job.keywords))
        /\ NthIndex(ls, IsH2, Len(h2s)) + 1 + Len(conclusion) = Len(ls)
        /\ BodyAt(ls, NthIndex(ls, IsH2, Len(h2s)) + 2,
                  text_to_md(job.content.conclusion, job.keywords))

\* C18: in both formats the document is, in this order, the title heading, the intro block,
\* the table block (present iff the table artifact is non-empty after trimming), one block
\* per pair of heading i and sections[i] in order, and the conclusion block last; with as
\* many headings as sections no section block is omitted or duplicated
C18_AssemblyOrder ==
    Assembled =>
        /\ HtmlDocumentInOrder
        /\ MdDocumentInOrder
        /\ Len(job.headings) = Len(job.content.sections) => SectionCount = Len(job.headings)

\* two sections, an HTML table artifact and a blank Markdown table artifact
C18_Witness ==
    /\ Assembled
    /\ job.headings = <<<<"H">>, <<"G">>>>
    /\ job.content.sections = <<<<"a">>, <<"-", " ", "x">>>>
    /\ job.content.table_html = <<"t">>
    /\ job.content.table_md = <<" ">>
    /\ out.html = <<"<", "h", "1", ">", "T", "<", "/", "h", "1", ">", "\n", "\n", "<", "d", "i", "v", " ", "c", "l", "a", "s", "s", "=", "\"", "i", "n", "t", "r", "o", "\"", ">", "\n", "<", "p", ">", "i", "<", "/", "p", ">", "\n", "<", "/", "d", "i", "v", ">", "\n", "\n", "<", "d", "i", "v", " ", "c", "l", "a", "s", "s", "=", "\"", "c", "o", "m", "p", "a", "r", "i", "s", "o", "n", "-", "t", "a", "b", "l", "e", "\"", ">", "\n", "<", "h", "2", ">", "C", "o", "m", "p", "a", "r", "i", "s", "o", "n", "<", "/", "h", "2", ">", "\n", "t", "\n", "<", "/", "d", "i", "v", ">", "\n", "\n", "<", "s", "e", "c", "t", "i", "o", "n", ">", "\n", "<", "h", "2", ">", "H", "<", "/", "h", "2", ">", "\n", "<", "p", ">", "a", "<", "/", "p", ">", "\n", "<", "/", "s", "e", "c", "t", "i", "o", "n", ">", "\n", "\n", "<", "s", "e", "c", "t", "i", "o", "n", ">", "\n", "<", "h", "2", ">", "G", "<", "/", "h", "2", ">", "\n", "<", "u", "l", ">", "\n", " ", " ", "<", "l", "i", ">", "x", "<", "/", "l", "i", ">", "\n", "<", "/", "u", "l", ">", "\n", "<", "/", "s", "e", "c", "t", "i", "o", "n", ">", "\n", "\n", "<", "d", "i", "v", " ", "c", "l", "a", "s", "s", "=", "\"", "c", "o", "n", "c", "l", "u", "s", "i", "o", "n", "\"", ">", "\n", "<", "h", "2", ">", "C", "o", "n", "c", "l", "u", "s", "i", "o", "n", "<", "/", "h", "2", ">", "\n", "<", "p", ">", "c", "<", "/", "p", ">", "\n", "<", "/", "d", "i", "v", ">">>
    /\ out.md = <<"#", " ", "T", "\n", "\n", "i", "\n", "\n", "#", "#", " ", "H", "\n", "\n", "a", "\n", "\n", "#", "#", " ", "G", "\n", "\n", "-", " ", "x", "\n", "\n", "#", "#", " ", "C", "o", "n", "c", "l", "u", "s", "i", "o", "n", "\n", "\n", "c">>

\* direct calls of the text and rendering functions, one function per behaviour
InitRender ==
    /\ PipelineOff
    /\ stage = "called"
    /\ seg = NoSeg
    /\ out = <<>>
    /\ \/ job \in StarsJobs
       \/ job \in ParseJobs
       \/ job \in BuildJobs
       \/ job \in TextJobs
       \/ job \in HighlightJobs
       \/ job \in AssemblyJobs

NextRender ==
    \/ ValueToStars
    \/ ParseTableData
    \/ BuildTable
    \/ ReparseTable
    \/ SegmentEnter
    \/ SegmentLine
    \/ SegmentReturn
    \/ HighlightEnter
    \/ HighlightKeyword
    \/ HighlightReturn
    \/ BuildFull

SpecRender == InitRender /\ [][NextRender]_vars

(***************************************************************************)
(* C21: highlighting and the structural tags of text_to_html.              *)
(***************************************************************************)

\* the tags segmentation produces
StructuralTags == {<<"<", "p", ">">>, <<"<", "/", "p", ">">>, <<"<", "u", "l", ">">>, <<"<", "/", "u", "l", ">">>, <<"<", "l", "i", ">">>, <<"<", "/", "l", "i", ">">>}

\* the structural tags of an HTML text, in the order they appear
TagsOf(html) ==
    LET at == [i \in DOMAIN html |-> {t \in StructuralTags : startswith(SubSeq(html, i, Len(html)), t)}]
        idx == SelectSeq([i \in DOMAIN html |-> i], LAMBDA i : at[i] # {})
    IN  [n \in DOMAIN idx |-> CHOOSE t \in at[idx[n]] : TRUE]

\* C21: the structural tags <p>, </p>, <ul>, </ul>, <li>, </li> appear in the output of
\* text_to_html in the same number and order with keywords as without keywords
C21_TagsUnchanged ==
    Segmented => TagsOf(out.html) = TagsOf(text_to_html(job.text, <<>>))

(***************************************************************************)
(* C22: the requests of a run do not depend on config.system_prompt.       *)
(***************************************************************************)

\* the configuration that differs from config only in system_prompt, which it leaves at
\* its default
WithDefaultSystemPrompt == [config EXCEPT !.system_prompt = ""]

\* the request of task t in the run of that configuration: its model, the default system
\* prompt, its prompt for the task
ExpectedRequest(t) ==
    [model |-> WithDefaultSystemPrompt.model,
     messages |-> <<[role |-> "system", content |-> DEFAULT_SYSTEM_PROMPT],
                    [role |-> "user",
                     content |-> BuildTasks(WithDefaultSystemPrompt)[t].prompt]>>]

====
